---- MODULE Spec2Model ----
(***************************************************************************)
(* Model of the maco master dispatch core: the trust store                 *)
(* (internal/master/storage.go), the scheduler with its pipes, tasks and   *)
(* id allocator (internal/master/scheduler.go), the Dispatch handler       *)
(* (internal/master/handler.go) and the coarse selection filter            *)
(* (api/types/types.go).                                                   *)
(***************************************************************************)
EXTENDS Integers, Sequences, FiniteSets, TLC

(***************************************************************************)
(* Bounds of the model.                                                    *)
(***************************************************************************)
\* minion names that connect, and one host name no minion ever uses
Names == {"m1", "m2"}
UnknownHost == "mX"
\* incoming Dispatch streams and HandleCall callers
Streams == {"s1", "s2"}
Callers == {"c1"}
\* goroutines that use the id allocator directly
Holders == {"h1", "h2", "h3"}
\* goroutines that call the trust store directly, and the names they use
Threads == {"t1", "t2"}
FirstThread == "t1"
OpNames == {"m1"}
\* how many terms an expression given to MatchTarget has at most
MaxTerms == 3
\* the size of the RSA modulus in bytes, and the longest payload encrypted
KeySize == 13
MaxPayload == 5
\* how often the master goes away, how many calls it sends to the minion, and
\* the value from which on the dispatcher's attempts are not told apart
MaxBreaks == 2
MaxDispCalls == 2
MaxAttempts == 6
\* how many trust-store operations the threads begin
MaxStoreOps == 4
\* width of the masked id counter in the model (the code masks to 31 bits)
IdBits == 2
\* number of HandleCall invocations in one behaviour
MaxCalls == 1
\* capacity of the scheduler's message channel in the model
MchCap == 2
\* number of publisher goroutines waiting for the store's lock
MaxPubs == 1
\* number of operator transitions (accept, reject, delete) in one behaviour
MaxOps == 1

(***************************************************************************)
(* Program constants.                                                      *)
(***************************************************************************)
\* make(chan *storageEvent, 1)
EchCap == 1
\* make(chan *tackPack, 1)
TaskChCap == 1
\* AddStream's hard-wired first-contact policy
AutoSignFlag == FALSE
AutoDeniedFlag == TRUE

Unaccepted == "unaccepted"
Accepted == "accepted"
AutoSign == "auto_sign"
Denied == "denied"
Rejected == "rejected"
MinionStates == {Unaccepted, Accepted, AutoSign, Denied, Rejected}
NoState == "none"

NoPipe == "nopipe"
NoTask == [total |-> 0 - 1]
NoEvent == [minion |-> "", state |-> NoState, deleted |-> FALSE]
NoThread == ""
NoAcc == [kind |-> "none", st |-> NoState]
NoPre == [cache |-> <<>>, links |-> <<>>, sf |-> <<>>, nOps |-> 0, opr |-> <<>>]
NoPack == [name |-> "", id |-> 0]

IdMod == 2 ^ IdBits
Ids == 1 .. (IdMod - 1)

VARIABLES
    \* ---- trust store (Storage) ----
    stateFile,     \* minions/<name>/state: name -> state or NoState
    minionCache,   \* Storage.minionCache: state -> set of names
    links,         \* the five bucket directories: state -> set of symlinks
    rootDir,       \* the names whose directory minions/<name> exists
    pubs,          \* publisher goroutines (go s.publish) not yet holding cmu
    cmuHeld,       \* the event of the publisher that holds cmu, or NoEvent
    ech,           \* the scheduler's subscription channel
    nOps,          \* operator transitions issued so far
    \* ---- scheduler ----
    pipes,         \* Scheduler.pipes: name -> stream of the pipe, or NoPipe
    minions,       \* Scheduler.minions: the eligible-minion map (its keys)
    idNext,        \* idAllocator.next (kept modulo the mask width)
    idUsed,        \* idAllocator.used
    taskStore,     \* Scheduler.taskStore: id -> task or NoTask
    mch,           \* Scheduler.mch
    runPc,         \* Run: "select" or "notify" (blocked in t.ch <- pack)
    runPack,       \* the pack Run is blocked on, with its task id
    \* ---- Dispatch streams: handler, pipe and the minion behind it ----
    spc,           \* "idle","adding","attached","running","closed","rejected"
    sname,         \* the name the stream's Connect frame carries
    sstate,        \* the state AddMinion returned to AddStream
    inbox,         \* call ids sent on the stream, not yet answered
    \* ---- HandleCall invocations ----
    cpc,           \* "idle","insert","send","execute","delete"
    cid,           \* nextId
    csel,          \* result of selectPipe: pipes, report skeleton
    csent,         \* number of selected pipes already sent to
    cret,          \* what the last HandleCall of the caller returned
    nCalls,        \* HandleCall invocations started so far
    \* ---- the id allocator used on its own ----
    held,          \* holder -> the id it got from Get, 0 when it holds none
    \* ---- trust-store operations step by step ----
    opr,           \* thread -> the operation it is in and where
    conc,          \* whether two operations ever overlapped (history)
    \* ---- ParseSelection step by step ----
    parse,         \* the text, the positions i and j, the terms, the matches
    \* ---- functions applied to an input ----
    app,           \* the function called, its input and what it returned
    \* ---- the minion's Dispatcher (client) ----
    dpc,           \* process: "timer","check","loop","recv","notify","ended"
    attempts,      \* process's local attempts
    interval,      \* the interval the timer was last reset to, in ms
    connected,     \* Dispatcher.connected
    dstream,       \* Dispatcher.stream: "ok" or "broken"
    dech,          \* Dispatcher.ech: the events not yet taken by Recv
    dpend,         \* the event process is about to put on ech
    closed,        \* whether Dispatcher.done (the client's) is closed
    cancelled,     \* whether Dispatcher.ctx has ended
    reachable,     \* whether the master accepts a Dispatch stream
    nBreaks,       \* how often the master went away so far
    nSent,         \* how many calls the master sent to the minion so far
    \* ---- the embed server ----
    stop,          \* whether embedServer.stop is closed
    stopping,      \* whether embedServer.stopping is closed
    stopped,       \* whether embedServer.done is closed
    wg,            \* the counter of embedServer.wg
    wgMu,          \* embedServer.wgMu: the set of its holders
    destroyPc,     \* the goroutine of Destroy(fn): where it is
    fnRuns,        \* how many times fn was run
    attachPc,      \* GoAttach caller -> where it is
    shutPc,        \* the caller of Shutdown: where it is
    shutCtx,       \* whether the context given to Shutdown has ended
    \* ---- Storage.cmu as a reader/writer lock ----
    rw,            \* Storage.cmu: its writer and the set of its readers
    access,        \* thread -> the access to a per-state set it is in
    pre            \* history: thread -> the store as its call in progress found it

storeVars == <<stateFile, minionCache, links, rootDir, pubs, cmuHeld, ech, nOps>>
schedVars == <<pipes, minions, idNext, idUsed, taskStore, mch, runPc, runPack>>
streamVars == <<spc, sname, sstate, inbox>>
callVars == <<cpc, cid, csel, csent, cret, nCalls>>
dispVars == <<dpc, attempts, interval, connected, dstream, dech, dpend, closed,
              cancelled, reachable, nBreaks, nSent>>
srvVars == <<stop, stopping, stopped, wg, wgMu, destroyPc, fnRuns, attachPc, shutPc,
             shutCtx>>
lockVars == <<rw, access, pre>>
auxVars == <<held, opr, conc, parse, app, dispVars, srvVars, lockVars>>
vars == <<storeVars, schedVars, streamVars, callVars, auxVars>>

(***************************************************************************)
(* Sequence helpers.                                                       *)
(***************************************************************************)
Range(s) == {s[i] : i \in DOMAIN s}

RemoveAt(s, i) == SubSeq(s, 1, i - 1) \o SubSeq(s, i + 1, Len(s))

\* every ordering of a finite set, as sequences without repetition
Orders(S) ==
    {o \in [1 .. Cardinality(S) -> S] : \A i, j \in DOMAIN o : i # j => o[i] # o[j]}

(***************************************************************************)
(* Selection expressions (api/types/types.go).  A term is [kind, arg]; a   *)
(* regular expression or a CIDR is represented by the set of strings it    *)
(* matches.                                                                *)
(***************************************************************************)
Hosts(hs) == [kind |-> "hosts", arg |-> hs]
HostPcre(ms) == [kind |-> "pcre", arg |-> ms]
HostGroups(gs) == [kind |-> "groups", arg |-> gs]
IpCidr(ips) == [kind |-> "cidr", arg |-> ips]
Grains(k, v) == [kind |-> "grains", arg |-> <<k, v>>]
LogicAnd == [kind |-> "and", arg |-> <<>>]
LogicOr == [kind |-> "or", arg |-> <<>>]

\* Selection.MatchId: <<matched, hit>>
MatchId(s, id) ==
    CASE s.kind = "hosts" ->
           <<s.arg[1] = "*" \/ \E i \in DOMAIN s.arg : s.arg[i] = "*" \/ s.arg[i] = id, TRUE>>
      [] s.kind = "pcre" -> <<id \in s.arg, TRUE>>
      [] OTHER -> <<FALSE, FALSE>>

\* Selection.MatchIP: <<matched, hit>>
MatchIP(s, ip) ==
    IF s.kind = "cidr" THEN <<ip \in s.arg, TRUE>> ELSE <<FALSE, FALSE>>

\* one iteration of MatchTarget's loop; acc = [result, hit, last]
MatchStep(acc, s, target, simple) ==
    IF s.kind = "and" THEN [acc EXCEPT !.result = acc.result /\ acc.last]
    ELSE IF s.kind = "or" THEN [acc EXCEPT !.result = acc.result \/ acc.last]
    ELSE IF target.id # "" /\ MatchId(s, target.id)[2]
         THEN [acc EXCEPT !.last = MatchId(s, target.id)[1], !.hit = TRUE]
    ELSE IF target.ip # "" /\ MatchIP(s, target.ip)[2]
         THEN [acc EXCEPT !.last = MatchIP(s, target.ip)[1], !.hit = TRUE]
    ELSE LET inGroups == s.kind = "groups" /\ target.groups # <<>>
             g1 == IF inGroups /\ s.arg # <<>>
                   THEN [acc EXCEPT !.hit = TRUE,
                                    !.last = acc.last \/ (Range(target.groups) \cap Range(s.arg) # {})]
                   ELSE acc
         IN  IF simple THEN g1
             ELSE IF s.kind = "grains" /\ DOMAIN target.grains # {}
                  THEN IF s.arg[1] \in DOMAIN target.grains
                       THEN [g1 EXCEPT !.hit = TRUE, !.last = (target.grains[s.arg[1]] = s.arg[2])]
                       ELSE [g1 EXCEPT !.hit = TRUE]
                  ELSE g1

RECURSIVE MatchFold(_, _, _, _, _)
MatchFold(acc, sels, i, target, simple) ==
    IF i > Len(sels) THEN acc
    ELSE MatchFold(MatchStep(acc, sels[i], target, simple), sels, i + 1, target, simple)

\* SelectionOptions.MatchTarget: <<matched, hit>>
MatchTarget(sels, target, simple) ==
    LET r == MatchFold([result |-> TRUE, hit |-> FALSE, last |-> FALSE], sels, 1, target, simple)
    IN  <<r.result /\ r.last, r.hit>>

\* the node record AddStream and Run build from a pipe
IpOf(name) == IF name = "m1" THEN "10.0.0.1" ELSE "10.0.0.2"
Node(name) == [id |-> name, ip |-> IpOf(name), groups |-> <<>>, grains |-> <<>>, pillars |-> <<>>]

\* a request whose Options field is nil
NilOptions == <<[kind |-> "nil", arg |-> <<>>]>>

\* the expressions callers submit
CallOptions ==
    { NilOptions,
      <<Hosts(<<"*">>)>>,
      <<Hosts(<<"m1">>)>>,
      <<Hosts(<<"m1", "m2">>)>>,
      <<Hosts(<<"m1", "m1">>)>>,
      <<Hosts(<<"m1", UnknownHost>>)>>,
      <<Hosts(<<"m1">>), LogicOr, Grains("os", "linux")>>,
      <<Grains("os", "linux")>> }

(***************************************************************************)
(* ParseSelection (api/types/types.go).  A text is a sequence of           *)
(* characters; the words the parser cuts out of it are turned into the     *)
(* strings the selection terms hold through the table Spell.  The tags     *)
(* modelled are G, N, and, or and the empty tag.                           *)
(***************************************************************************)
Spell ==
    [w \in {""} |-> <<>>]
    @@ ("*" :> <<"*">>) @@ ("G" :> <<"G">>) @@ ("N" :> <<"N">>)
    @@ ("m1" :> <<"m", "1">>) @@ ("m2" :> <<"m", "2">>) @@ ("m3" :> <<"m", "3">>)
    @@ ("os" :> <<"o", "s">>) @@ ("role" :> <<"r", "o", "l", "e">>)
    @@ ("linux" :> <<"l", "i", "n", "u", "x">>) @@ ("bsd" :> <<"b", "s", "d">>)
    @@ ("web" :> <<"w", "e", "b">>) @@ ("db" :> <<"d", "b">>)
    @@ ("and" :> <<"a", "n", "d">>) @@ ("or" :> <<"o", "r">>)
    @@ ("a" :> <<"a">>) @@ ("b" :> <<"b">>) @@ ("a:b" :> <<"a", ":", "b">>)
    @@ ("?" :> <<"?">>)
    @@ ("E" :> <<"E">>) @@ ("S" :> <<"S">>)
    @@ ("(a:b)" :> <<"(", "a", ":", "b", ")">>) @@ ("(a" :> <<"(", "a">>)
    @@ ("1.0.0.0/8" :> <<"1", ".", "0", ".", "0", ".", "0", "/", "8">>)
    @@ ("1.0.0.0/99" :> <<"1", ".", "0", ".", "0", ".", "0", "/", "9", "9">>)

\* the string a sequence of characters spells, "?" for one outside the table
Str(cs) ==
    IF \E w \in DOMAIN Spell : Spell[w] = cs
    THEN CHOOSE w \in DOMAIN Spell : Spell[w] = cs
    ELSE "?"

Space == <<" ">>
GrainsText(k, v) == Spell["G"] \o <<"@">> \o Spell[k] \o <<":">> \o Spell[v]

\* the texts handed to ParseSelection
TextAnd == GrainsText("os", "linux") \o Space \o Spell["and"] \o Space \o GrainsText("role", "web")
TextOr == GrainsText("os", "linux") \o Space \o Spell["or"] \o Space \o GrainsText("role", "web")

ParseTexts ==
    { TextAnd,
      TextOr,
      GrainsText("os", "linux"),
      GrainsText("role", "web"),
      Spell["m1"] \o <<",">> \o Spell["m2"],
      Spell["*"],
      Spell["N"] \o <<"@">> \o Spell["web"],
      Spell["m1"] \o Space \o Spell["or"] \o Space \o GrainsText("role", "web"),
      Space \o Spell["m3"] \o Space,
      GrainsText("os", "bsd") \o Space \o Space \o Spell["m1"] }

\* strings.TrimSpace
RECURSIVE TrimSpace(_)
TrimSpace(cs) ==
    IF cs = <<>> THEN cs
    ELSE IF Head(cs) = " " THEN TrimSpace(Tail(cs))
    ELSE IF cs[Len(cs)] = " " THEN TrimSpace(SubSeq(cs, 1, Len(cs) - 1))
    ELSE cs

\* strings.Split(cs, ","): cur is the part being collected
RECURSIVE SplitFrom(_, _, _)
SplitFrom(cs, k, cur) ==
    IF k > Len(cs) THEN <<cur>>
    ELSE IF cs[k] = "," THEN <<cur>> \o SplitFrom(cs, k + 1, <<>>)
    ELSE SplitFrom(cs, k + 1, Append(cur, cs[k]))

Split(cs) == SplitFrom(cs, 1, <<>>)

\* ParseSelection's inner loop over text[i:j]: '@' ends the tag, ':' the key
RECURSIVE ScanToken(_, _, _, _, _, _)
ScanToken(text, i, j, k, tag, key) ==
    IF k >= j THEN [i |-> i, tag |-> tag, key |-> key]
    ELSE LET c == text[k + 1]
             i1 == IF c = "@" THEN k + 1 ELSE i
             tag1 == IF c = "@" THEN TrimSpace(SubSeq(text, i + 1, k)) ELSE tag
             i2 == IF c = ":" THEN k + 1 ELSE i1
             key1 == IF c = ":" THEN TrimSpace(SubSeq(text, i1 + 1, k)) ELSE key
         IN  ScanToken(text, i2, j, k + 1, tag1, key1)

\* ParseSelection's switch on the tag: the terms appended for one token
ParseTerm(tag, key, value) ==
    LET parts == [p \in DOMAIN Split(value) |-> Str(Split(value)[p])]
    IN  CASE Str(tag) = "N" -> <<HostGroups(parts)>>
          [] Str(tag) = "G" -> <<Grains(Str(key), Str(value))>>
          [] Str(tag) = "and" -> <<LogicAnd>>
          [] Str(tag) = "or" -> <<LogicOr>>
          [] Str(tag) = "" -> IF Str(value) = "*" THEN <<Hosts(<<"*">>)>> ELSE <<Hosts(parts)>>
          [] OTHER -> <<>>

\* the terms of the token that ends at j
TokenTerms(text, i, j) ==
    LET sc == ScanToken(text, i, j, i, <<>>, <<>>)
    IN  ParseTerm(sc.tag, sc.key, TrimSpace(SubSeq(text, sc.i + 1, j)))

\* ParseSelection's loop from the positions i and j on: the terms collected
RECURSIVE ParseLoop(_, _, _, _)
ParseLoop(text, i, j, sels) ==
    LET atSpace == j < Len(text) /\ text[j + 1] = " "
        sels1 == IF atSpace \/ j = Len(text) THEN sels \o TokenTerms(text, i, j) ELSE sels
    IN  IF j >= Len(text) THEN sels1
        ELSE ParseLoop(text, IF atSpace THEN j ELSE i, j + 1, sels1)

ParseSelection(text) == ParseLoop(TrimSpace(text), 0, 0, <<>>)

\* strings.Join(words, ","), in characters
RECURSIVE JoinComma(_)
JoinComma(words) ==
    IF words = <<>> THEN <<>>
    ELSE IF Len(words) = 1 THEN Spell[words[1]]
    ELSE Spell[words[1]] \o <<",">> \o JoinComma(Tail(words))

\* terms that hold the text of a regular expression or of a CIDR
WithHostRegex(pattern) == [kind |-> "hostpcre", arg |-> <<pattern>>]
WithIPCidr(cidr) == [kind |-> "ipcidr", arg |-> <<cidr>>]
\* a Selection with no field set
EmptySelection == [kind |-> "empty", arg |-> <<>>]

\* Selection.ToText
SelectionToText(s) ==
    CASE s.kind = "hosts" /\ Len(s.arg) # 0 -> JoinComma(s.arg)
      [] s.kind = "hostpcre" /\ s.arg[1] # "" -> Spell["E"] \o <<"@">> \o Spell[s.arg[1]]
      [] s.kind = "ipcidr" /\ s.arg[1] # "" -> Spell["S"] \o <<"@">> \o Spell[s.arg[1]]
      [] s.kind = "groups" /\ Len(s.arg) # 0 -> Spell["N"] \o <<"@">> \o JoinComma(s.arg)
      [] s.kind = "grains" -> GrainsText(s.arg[1], s.arg[2])
      [] s.kind = "and" -> Spell["and"]
      [] s.kind = "or" -> Spell["or"]
      [] OTHER -> <<>>

\* SelectionOptions.ToText: the terms' texts with one space between
RECURSIVE ToText(_)
ToText(sels) ==
    IF sels = <<>> THEN <<>>
    ELSE IF Len(sels) = 1 THEN SelectionToText(sels[1])
    ELSE SelectionToText(sels[1]) \o Space \o ToText(Tail(sels))

\* Selection.isLogic
IsLogic(s) == s.kind \in {"and", "or"}

\* strings.Index(text, ch): the 0-based position of the first ch, -1 if none
IndexOf(text, ch) ==
    IF \E k \in DOMAIN text : text[k] = ch
    THEN (CHOOSE k \in DOMAIN text : text[k] = ch /\ \A m \in 1 .. (k - 1) : text[m] # ch) - 1
    ELSE -1

\* regexp.CompilePOSIX succeeds: for patterns of literals, ':' and
\* parentheses, when the parentheses balance
RECURSIVE Balanced(_, _, _)
Balanced(cs, k, depth) ==
    IF k > Len(cs) THEN depth = 0
    ELSE IF cs[k] = "(" THEN Balanced(cs, k + 1, depth + 1)
    ELSE IF cs[k] = ")" THEN depth > 0 /\ Balanced(cs, k + 1, depth - 1)
    ELSE Balanced(cs, k + 1, depth)

Compiles(cs) == Balanced(cs, 1, 0)

\* iprange.ParseRanges succeeds
ParsesRanges(cidr) == cidr \in {"1.0.0.0/8"}

\* the pattern Validate compiles for a term with the given text
ValidatePattern(s, text) ==
    LET p0 == IF s.kind = "hostpcre" THEN Spell[s.arg[1]] ELSE <<>>
        idx == IndexOf(text, "@")
        colon == IndexOf(text, ":")
    IN  IF idx > 0 /\ SubSeq(text, 1, idx) \in {<<"E">>, <<"P">>, <<"J">>}
        THEN IF colon >= 0 THEN SubSeq(text, colon + 2, Len(text)) ELSE text
        ELSE p0

\* SelectionOptions.Validate from element i on: "nil" or the error
RECURSIVE ValidateFrom(_, _, _, _)
ValidateFrom(sels, i, hasSelection, lastIsLogic) ==
    IF i > Len(sels)
    THEN IF hasSelection THEN "nil" ELSE "no selection options found"
    ELSE LET s == sels[i]
             text == SelectionToText(s)
             pattern == ValidatePattern(s, text)
         IN  IF text = <<>> THEN "empty selection"
             ELSE IF i = 1 /\ IsLogic(s) THEN "invalid selection[0]"
             ELSE IF lastIsLogic /\ IsLogic(s) THEN "continuous logic selection"
             ELSE IF pattern # <<>> /\ ~Compiles(pattern) THEN "invalid regexp"
             ELSE IF s.kind = "ipcidr" /\ ~ParsesRanges(s.arg[1]) THEN "invalid ip range"
             ELSE ValidateFrom(sels, i + 1,
                               hasSelection \/ text \notin {Spell["and"], Spell["or"]},
                               IsLogic(s))

Validate(sels) == ValidateFrom(sels, 1, FALSE, FALSE)

\* the targets the parsed expressions are evaluated on
Target(id, os, role) ==
    [id |-> id, ip |-> "", groups |-> <<>>, grains |-> ("os" :> os) @@ ("role" :> role),
     pillars |-> <<>>]

Targets == {Target("m1", "linux", "web"), Target("m2", "linux", "db"), Target("m3", "bsd", "web")}

\* no function has been called
NoApp == [fn |-> "none", input |-> <<>>, output |-> <<>>]

\* a function was called on an input and returned
Applied(fn, input, output) == [fn |-> fn, input |-> input, output |-> output]

\* the expressions MatchTarget is called on: up to MaxTerms terms, every
\* two of them with a connective between
MatchTerms ==
    {Hosts(<<"m1">>), Hosts(<<"m2">>), Grains("os", "linux"), Grains("os", "bsd"),
     HostGroups(<<"web">>), HostGroups(<<"db">>)}

Connectives == {LogicAnd, LogicOr}

RECURSIVE Alternating(_)
Alternating(n) ==
    IF n = 1 THEN {<<t>> : t \in MatchTerms}
    ELSE {e \o <<c, t>> : e \in Alternating(n - 1), c \in Connectives, t \in MatchTerms}

MatchExprs == {<<>>} \cup UNION {Alternating(n) : n \in 1 .. MaxTerms}

MatchedTargets ==
    {[Target("m1", "linux", "web") EXCEPT !.groups = <<"web">>],
     Target("m2", "bsd", "db")}

\* the options NewSelectionOptions builds from up to MaxTerms constructors
OptionTerms ==
    {Hosts(<<"*">>), Hosts(<<"m1">>), Hosts(<<"m1", "m2">>), HostGroups(<<"web", "db">>),
     Grains("os", "linux"), Grains("os", "a:b")}

RECURSIVE Built(_)
Built(n) ==
    IF n = 1 THEN {<<t>> : t \in OptionTerms}
    ELSE {e \o <<c, t>> : e \in Built(n - 1), c \in Connectives, t \in OptionTerms}

BuiltOptions == UNION {Built(n) : n \in 1 .. MaxTerms}

(***************************************************************************)
(* Chunked RSA (pkg/pemutil).  A byte is a number; the RSA permutation of  *)
(* a padded block is modelled by a bijection on blocks (reversal), the     *)
(* random padding bytes by a nonzero byte chosen per call.                 *)
(***************************************************************************)
\* PKCS #1 v1.5 encryption padding takes at least PadLen bytes of a block
PadLen == 11

Bytes == {0, 65}
PadBytes == {7, 9}

RECURSIVE Reverse(_)
Reverse(b) == IF b = <<>> THEN <<>> ELSE Append(Reverse(Tail(b)), Head(b))

Payloads == UNION {[1 .. n -> Bytes] : n \in 0 .. MaxPayload}

\* rsa.EncryptPKCS1v15: 00 02 PS 00 M under the public key; an error when
\* the message is longer than the key size less the padding
EncryptPKCS1v15(msg, r) ==
    IF Len(msg) > KeySize - PadLen THEN [err |-> "message too long", data |-> <<>>]
    ELSE [err |-> "nil",
          data |-> Reverse(<<0, 2>> \o [i \in 1 .. (KeySize - 3 - Len(msg)) |-> r]
                           \o <<0>> \o msg)]

\* rsa.DecryptPKCS1v15: the block must have the key's size and the padding
\* must be well formed
DecryptPKCS1v15(block) ==
    LET em == Reverse(block)
        zeros == {i \in 3 .. Len(em) : em[i] = 0}
        sep == CHOOSE i \in zeros : \A k \in zeros : i <= k
    IN  IF Len(block) # KeySize \/ em[1] # 0 \/ em[2] # 2 \/ zeros = {}
        THEN [err |-> "decryption error", data |-> <<>>]
        ELSE IF sep < PadLen THEN [err |-> "decryption error", data |-> <<>>]
        ELSE [err |-> "nil", data |-> SubSeq(em, sep + 1, Len(em))]

Min(a, b) == IF a < b THEN a ELSE b

\* a variant of encryptChunks that encrypts the first chunk only
EncryptChunksOnce(data, offset, r) ==
    IF offset >= Len(data) THEN [err |-> "nil", data |-> <<>>]
    ELSE EncryptPKCS1v15(SubSeq(data, offset + 1, Min(offset + KeySize - PadLen, Len(data))), r)

\* encryptChunks from offset on
RECURSIVE EncryptChunks(_, _, _)
EncryptChunks(data, offset, r) ==
    IF offset >= Len(data) THEN [err |-> "nil", data |-> <<>>]
    ELSE LET maxChunkSize == KeySize - PadLen
             end == Min(offset + maxChunkSize, Len(data))
             chunk == EncryptPKCS1v15(SubSeq(data, offset + 1, end), r)
             rest == EncryptChunks(data, offset + maxChunkSize, r)
         IN  IF chunk.err # "nil" THEN chunk
             ELSE IF rest.err # "nil" THEN rest
             ELSE [err |-> "nil", data |-> chunk.data \o rest.data]

EncodeByRSA(plaintext, r) == EncryptChunks(plaintext, 0, r)

\* DecodeByRSA's loop from offset on
RECURSIVE DecryptChunks(_, _)
DecryptChunks(ciphertext, offset) ==
    IF offset >= Len(ciphertext) THEN [err |-> "nil", data |-> <<>>]
    ELSE LET end == Min(offset + KeySize, Len(ciphertext))
             chunk == DecryptPKCS1v15(SubSeq(ciphertext, offset + 1, end))
             rest == DecryptChunks(ciphertext, offset + KeySize)
         IN  IF chunk.err # "nil" THEN chunk
             ELSE IF rest.err # "nil" THEN rest
             ELSE [err |-> "nil", data |-> chunk.data \o rest.data]

DecodeByRSA(ciphertext) == DecryptChunks(ciphertext, 0)

\* EncodeByRSA on a payload, then DecodeByRSA on the result
CallRSA(p, r) ==
    /\ app = NoApp
    /\ app' = LET enc == EncodeByRSA(p, r)
              IN  Applied("RSA", p,
                          [enc |-> enc,
                           dec |-> IF enc.err = "nil" THEN DecodeByRSA(enc.data) ELSE enc])
    /\ UNCHANGED <<storeVars, schedVars, streamVars, callVars, held, opr, conc, parse, dispVars, srvVars, lockVars>>

\* the values Validate is called on: any sequence of up to MaxTerms elements
ValidateElements ==
    {Hosts(<<"m1">>), Grains("os", "linux"), EmptySelection,
     WithHostRegex("a"), WithHostRegex("(a"), WithHostRegex("(a:b)"),
     WithIPCidr("1.0.0.0/8"), WithIPCidr("1.0.0.0/99"), LogicAnd, LogicOr}

ValidateInputs == UNION {[1 .. n -> ValidateElements] : n \in 0 .. MaxTerms}

CallValidate(sels) ==
    /\ app = NoApp
    /\ app' = Applied("Validate", sels, Validate(sels))
    /\ UNCHANGED <<storeVars, schedVars, streamVars, callVars, held, opr, conc, parse, dispVars, srvVars, lockVars>>

\* ParseSelection(o.ToText()).ToText() is computed
CallRoundTrip(o) ==
    /\ app = NoApp
    /\ app' = Applied("RoundTrip", o, ToText(ParseSelection(ToText(o))))
    /\ UNCHANGED <<storeVars, schedVars, streamVars, callVars, held, opr, conc, parse, dispVars, srvVars, lockVars>>

\* SelectionOptions.MatchTarget(target, false) is called
CallMatchTarget(sels, target) ==
    /\ app = NoApp
    /\ app' = Applied("MatchTarget", [sels |-> sels, target |-> target],
                      MatchTarget(sels, target, FALSE)[1])
    /\ UNCHANGED <<storeVars, schedVars, streamVars, callVars, held, opr, conc, parse, dispVars, srvVars, lockVars>>

\* MatchTarget is called on one target in both modes: in full, and with
\* simple = true as selectPipe does
CallMatchBoth(sels, target) ==
    /\ app = NoApp
    /\ app' = Applied("MatchBoth", [sels |-> sels, target |-> target],
                      [full |-> MatchTarget(sels, target, FALSE),
                       simple |-> MatchTarget(sels, target, TRUE)])
    /\ UNCHANGED <<storeVars, schedVars, streamVars, callVars, held, opr, conc, parse, dispVars, srvVars, lockVars>>

ParseIdle == [pc |-> "idle", text |-> <<>>, i |-> 0, j |-> 0, selections |-> <<>>, matched |-> {}]

\* ParseSelection is called: the text is trimmed, i and j start at 0
ParseSelectionBegin(text) ==
    /\ parse.pc = "idle"
    /\ parse' = [ParseIdle EXCEPT !.pc = "loop", !.text = TrimSpace(text)]
    /\ UNCHANGED <<storeVars, schedVars, streamVars, callVars, held, opr, conc, app, dispVars, srvVars, lockVars>>

\* one iteration of ParseSelection's loop: at a space or at the end the
\* token is turned into a term; at the end the loop breaks
ParseSelectionLoop ==
    LET text == parse.text
        length == Len(text)
        i == parse.i
        j == parse.j
        atSpace == j < length /\ text[j + 1] = " "
        sels == IF atSpace \/ j = length
                THEN parse.selections \o TokenTerms(text, i, j)
                ELSE parse.selections
    IN  /\ parse.pc = "loop"
        /\ parse' = IF j >= length
                    THEN [parse EXCEPT !.pc = "parsed", !.selections = sels]
                    ELSE [parse EXCEPT !.selections = sels,
                                       !.i = IF atSpace THEN j ELSE i,
                                       !.j = j + 1]
        /\ UNCHANGED <<storeVars, schedVars, streamVars, callVars, held, opr, conc, app, dispVars, srvVars, lockVars>>

\* SelectionOptions.MatchTarget in full mode on each target
MatchTargets ==
    /\ parse.pc = "parsed"
    /\ parse' = [parse EXCEPT !.pc = "matched",
                              !.matched = {t.id : t \in {u \in Targets :
                                               MatchTarget(parse.selections, u, FALSE)[1]}}]
    /\ UNCHANGED <<storeVars, schedVars, streamVars, callVars, held, opr, conc, app, dispVars, srvVars, lockVars>>

(***************************************************************************)
(* Scheduler.selectPipe.                                                   *)
(***************************************************************************)
EmptyItem(name) == [minion |-> name, result |-> FALSE, error |-> "", data |-> ""]
ErrorItem(name, msg) == [minion |-> name, result |-> FALSE, error |-> msg, data |-> ""]

\* names and failed are history fields: the selected names in order, and the
\* number of selected pipes on which p.send returned an error
EmptySel == [pipes |-> <<>>, names |-> <<>>, items |-> <<>>, nameIdx |-> <<>>, total |-> 0,
             failed |-> 0]

\* the addPipe closure: acc is the selection built so far, pt the pipe table
AddPipe(acc, pt, name) ==
    IF pt[name] = NoPipe THEN acc
    ELSE [pipes |-> Append(acc.pipes, pt[name]),
          names |-> Append(acc.names, name),
          items |-> Append(acc.items, EmptyItem(name)),
          nameIdx |-> [n \in DOMAIN acc.nameIdx \cup {name} |->
                          IF n = name THEN Len(acc.items) + 1 ELSE acc.nameIdx[n]],
          total |-> acc.total + 1,
          failed |-> acc.failed]

\* the body of the loop over a host list
AddHost(acc, pt, elig, host) ==
    IF host \in elig THEN AddPipe(acc, pt, host)
    ELSE IF host \notin DOMAIN pt \/ pt[host] = NoPipe
         THEN [acc EXCEPT !.items = Append(acc.items, ErrorItem(host, "not online"))]
         ELSE [acc EXCEPT !.items = Append(acc.items, ErrorItem(host, "not accepted"))]

RECURSIVE HostLoop(_, _, _, _, _)
HostLoop(acc, pt, elig, hosts, i) ==
    IF i > Len(hosts) THEN acc
    ELSE HostLoop(AddHost(acc, pt, elig, hosts[i]), pt, elig, hosts, i + 1)

\* minions.Range(addPipe) over the keys in the map's iteration order
RECURSIVE RangeAll(_, _, _, _)
RangeAll(acc, pt, order, i) ==
    IF i > Len(order) THEN acc
    ELSE RangeAll(AddPipe(acc, pt, order[i]), pt, order, i + 1)

\* minions.Range with the MatchTarget(simple=true) pre-filter
RECURSIVE RangeMatch(_, _, _, _, _)
RangeMatch(acc, pt, opts, order, i) ==
    IF i > Len(order) THEN acc
    ELSE LET m == MatchTarget(opts, Node(order[i]), TRUE)
         IN  RangeMatch(IF m[1] \/ ~m[2] THEN AddPipe(acc, pt, order[i]) ELSE acc,
                        pt, opts, order, i + 1)

\* selectPipe(options): order is the iteration order of the eligible map
SelectPipe(opts, pt, elig, order) ==
    IF Len(opts) = 1
    THEN IF opts[1].kind = "hosts"
         THEN IF Len(opts[1].arg) = 1 /\ opts[1].arg[1] = "*"
              THEN RangeAll(EmptySel, pt, order, 1)
              ELSE HostLoop(EmptySel, pt, elig, opts[1].arg, 1)
         ELSE EmptySel
    ELSE RangeMatch(EmptySel, pt, opts, order, 1)

\* a variant of NoTarget that tests the report instead of the pipes: a host
\* list of unreachable names would then pass as a selection
NoTargetByItems(sel) == Len(sel.items) = 0

\* len(pipes) == 0: "no target selected"
NoTarget(sel) == Len(sel.pipes) = 0

(***************************************************************************)
(* Trust store (internal/master/storage.go).                               *)
(***************************************************************************)
\* the states a minion found on disk at start-up may be in
InitStates == {NoState, Accepted}

\* newStorage: the per-state sets are rebuilt from the bucket directories
WalkMinions(lk, state) == lk[state]

\* the state AddMinion gives an unknown minion
FirstState(autoSign, autoDenied) ==
    IF autoDenied THEN Denied ELSE IF autoSign THEN AutoSign ELSE Unaccepted

MinionEvent(name, state, deleted) == [minion |-> name, state |-> state, deleted |-> deleted]

\* a variant of AcceptSource that takes a rejected name without the flag
AcceptSourceNoFlag(cache, name, includeRejected, includeDenied) ==
    IF name \in cache[Unaccepted] THEN Unaccepted
    ELSE IF name \in cache[Rejected] THEN Rejected
    ELSE IF includeDenied /\ name \in cache[Denied] THEN Denied
    ELSE NoState

\* the bucket AcceptMinion takes the name from, NoState when it finds none
AcceptSource(cache, name, includeRejected, includeDenied) ==
    IF name \in cache[Unaccepted] THEN Unaccepted
    ELSE IF includeRejected /\ name \in cache[Rejected] THEN Rejected
    ELSE IF includeDenied /\ name \in cache[Denied] THEN Denied
    ELSE NoState

\* the bucket RejectMinion takes the name from, NoState when it finds none
RejectSource(cache, name, includeAccepted, includeDenied) ==
    IF name \in cache[Unaccepted] THEN Unaccepted
    ELSE IF includeAccepted /\ name \in cache[Accepted] THEN Accepted
    ELSE IF includeAccepted /\ name \in cache[AutoSign] THEN AutoSign
    ELSE IF includeDenied /\ name \in cache[Denied] THEN Denied
    ELSE NoState

\* acceptMinion / rejectMinion: symlink into the target bucket, then remove
\* the link in the bucket the state file names
MoveLink(lk, name, from, to) ==
    LET l1 == [lk EXCEPT ![to] = @ \cup {name}]
    IN  [l1 EXCEPT ![from] = @ \ {name}]

\* Storage.AddMinion as AddStream calls it: the store after the call
AddMinionState(name) ==
    IF stateFile[name] # NoState THEN stateFile[name]
    ELSE FirstState(AutoSignFlag, AutoDeniedFlag)

AddMinion(name) ==
    IF stateFile[name] # NoState
    THEN UNCHANGED <<stateFile, minionCache, links, rootDir>>
    ELSE LET state == FirstState(AutoSignFlag, AutoDeniedFlag)
         IN  /\ cmuHeld = NoEvent
             /\ rootDir' = rootDir \cup {name}
             /\ links' = [links EXCEPT ![state] = @ \cup {name}]
             /\ stateFile' = [stateFile EXCEPT ![name] = state]
             /\ minionCache' = [minionCache EXCEPT ![state] = @ \cup {name}]

\* a transition that moves name from bucket src to bucket target
Transition(name, src, target) ==
    /\ cmuHeld = NoEvent
    /\ Len(pubs) < MaxPubs
    /\ nOps < MaxOps
    /\ LET cache1 == [minionCache EXCEPT ![src] = @ \ {name}]
           cache2 == [cache1 EXCEPT ![target] = @ \cup {name}]
       IN  IF src = NoState
           THEN \* "minion not found"
                UNCHANGED <<stateFile, minionCache, links, pubs, nOps>>
           ELSE IF stateFile[name] = NoState \/ name \in links[target]
           THEN \* getUpdate or os.Symlink fails after the sets were changed
                /\ minionCache' = cache2
                /\ nOps' = nOps + 1
                /\ UNCHANGED <<stateFile, links, pubs>>
           ELSE /\ minionCache' = cache2
                /\ links' = MoveLink(links, name, stateFile[name], target)
                /\ stateFile' = [stateFile EXCEPT ![name] = target]
                /\ pubs' = Append(pubs, MinionEvent(name, target, FALSE))
                /\ nOps' = nOps + 1

AcceptMinion(name, includeRejected, includeDenied) ==
    /\ Transition(name, AcceptSource(minionCache, name, includeRejected, includeDenied), Accepted)
    /\ UNCHANGED <<rootDir, cmuHeld, ech, schedVars, streamVars, callVars>>
    /\ UNCHANGED auxVars

RejectMinion(name, includeAccepted, includeDenied) ==
    /\ Transition(name, RejectSource(minionCache, name, includeAccepted, includeDenied), Rejected)
    /\ UNCHANGED <<rootDir, cmuHeld, ech, schedVars, streamVars, callVars>>
    /\ UNCHANGED auxVars

DeleteMinion(name) ==
    /\ Len(pubs) < MaxPubs
    /\ nOps < MaxOps
    /\ IF stateFile[name] = NoState
       THEN \* getUpdate: "minion not found"
            UNCHANGED <<stateFile, minionCache, links, rootDir, pubs, nOps>>
       ELSE /\ cmuHeld = NoEvent
            /\ nOps' = nOps + 1
            /\ minionCache' = [minionCache EXCEPT ![stateFile[name]] = @ \ {name}]
            /\ links' = [links EXCEPT ![stateFile[name]] = @ \ {name}]
            /\ pubs' = Append(pubs, MinionEvent(name, stateFile[name], TRUE))
            /\ stateFile' = [stateFile EXCEPT ![name] = NoState]
            /\ rootDir' = rootDir \ {name}
    /\ UNCHANGED <<cmuHeld, ech, schedVars, streamVars, callVars>>
    /\ UNCHANGED auxVars

\* nobody holds cmu: no publisher, no writer, no reader
CmuFree == cmuHeld = NoEvent /\ rw.writer = NoThread /\ rw.readers = {}

\* Storage.publish, run by a goroutine of its own: s.cmu.Lock()
PublishLock ==
    /\ CmuFree
    /\ \E i \in DOMAIN pubs :
          /\ pubs' = RemoveAt(pubs, i)
          /\ cmuHeld' = pubs[i]
    /\ UNCHANGED <<stateFile, minionCache, links, rootDir, ech, nOps, schedVars, streamVars, callVars>>
    /\ UNCHANGED auxVars

\* Storage.publish: ch <- event on the subscriber's channel, with cmu still
\* held, then the deferred Unlock
PublishSend ==
    /\ cmuHeld # NoEvent
    /\ Len(ech) < EchCap
    /\ ech' = Append(ech, cmuHeld)
    /\ cmuHeld' = NoEvent
    /\ UNCHANGED <<stateFile, minionCache, links, rootDir, pubs, nOps, schedVars, streamVars, callVars>>
    /\ UNCHANGED auxVars

(***************************************************************************)
(* The trust store step by step (internal/master/storage.go): each thread  *)
(* runs one operation at a time, one file-system call or one locked        *)
(* section per step, so that two operations on one name can interleave.    *)
(***************************************************************************)
IdleOp(ret) ==
    [op |-> "idle", pc |-> "", name |-> "", f1 |-> FALSE, f2 |-> FALSE,
     st |-> NoState, ret |-> ret]

\* a thread is free to take the next operation; the threads are alike, so
\* the second one takes an operation only while the first one is busy
OpFree(t) ==
    /\ opr[t].op = "idle"
    /\ nOps < MaxStoreOps
    /\ t # FirstThread => opr[FirstThread].op # "idle"

\* the thread starts an operation: its arguments and its first position
OpBegin(t, op, pc, name, f1, f2, st) ==
    /\ nOps' = nOps + 1
    /\ opr' = [opr EXCEPT ![t] = [op |-> op, pc |-> pc, name |-> name,
                                  f1 |-> f1, f2 |-> f2, st |-> st, ret |-> "none"]]
    /\ conc' = (conc \/ \E u \in Threads \ {t} : opr[u].op # "idle")

\* the operation returns at once
OpReturn(t, ret) ==
    /\ nOps' = nOps + 1
    /\ opr' = [opr EXCEPT ![t] = IdleOp(ret)]
    /\ conc' = (conc \/ \E u \in Threads \ {t} : opr[u].op # "idle")

OpGoto(t, pc) ==
    /\ opr' = [opr EXCEPT ![t].pc = pc]
    /\ UNCHANGED conc

OpEnd(t, ret) ==
    /\ opr' = [opr EXCEPT ![t] = IdleOp(ret)]
    /\ UNCHANGED conc

\* a variant of RemoveLink that leaves the link in place
RemoveLinkKeep(lk, name, state) == lk

\* os.Remove of the link of name in the bucket of state
RemoveLink(lk, name, state) == [lk EXCEPT ![state] = @ \ {name}]

\* setUpdate: the state file is written when the minion's directory exists
SetUpdate(sf, rd, name, state) ==
    IF name \in rd THEN [sf EXCEPT ![name] = state] ELSE sf

\* AddMinion: getUpdate; a known minion keeps its state and only has its
\* record refreshed; an unknown one gets its directory and its first state
AddMinionBegin(t, name, autoSign, autoDenied) ==
    /\ OpFree(t)
    /\ IF stateFile[name] # NoState
       THEN /\ OpReturn(t, "ok")
            /\ rootDir' = rootDir \cup {name}
       ELSE /\ OpBegin(t, "add", "link", name, autoSign, autoDenied,
                       FirstState(autoSign, autoDenied))
            /\ rootDir' = rootDir \cup {name}
    /\ UNCHANGED <<stateFile, minionCache, links, pubs, cmuHeld, ech>>
    /\ UNCHANGED <<schedVars, streamVars, callVars, held, parse, app, dispVars, srvVars, lockVars>>

\* addMinion: the state written through the bucket entry, then the symlink
AddMinionLink(t) ==
    LET o == opr[t] IN
    /\ o.op = "add" /\ o.pc = "link"
    /\ IF o.name \in links[o.st]
       THEN IF o.name \in rootDir
            THEN /\ stateFile' = [stateFile EXCEPT ![o.name] = o.st]
                 /\ OpGoto(t, "state")
                 /\ UNCHANGED links
            ELSE \* a dangling entry: os.Symlink fails, the entry exists
                 /\ OpEnd(t, "error")
                 /\ UNCHANGED <<stateFile, links>>
       ELSE /\ links' = [links EXCEPT ![o.st] = @ \cup {o.name}]
            /\ OpGoto(t, "state")
            /\ UNCHANGED stateFile
    /\ UNCHANGED <<minionCache, rootDir, pubs, cmuHeld, ech, nOps>>
    /\ UNCHANGED <<schedVars, streamVars, callVars, held, parse, app, dispVars, srvVars, lockVars>>

\* AddMinion: minion.pub and the state file are written
AddMinionSetUpdate(t) ==
    LET o == opr[t] IN
    /\ o.op = "add" /\ o.pc = "state"
    /\ IF o.name \in rootDir
       THEN /\ stateFile' = SetUpdate(stateFile, rootDir, o.name, o.st)
            /\ OpGoto(t, "cache")
       ELSE /\ OpEnd(t, "error")
            /\ UNCHANGED stateFile
    /\ UNCHANGED <<minionCache, links, rootDir, pubs, cmuHeld, ech, nOps>>
    /\ UNCHANGED <<schedVars, streamVars, callVars, held, parse, app, dispVars, srvVars, lockVars>>

\* AddMinion: the name enters the set of its state under cmu; updateMinion
AddMinionCache(t) ==
    LET o == opr[t] IN
    /\ o.op = "add" /\ o.pc = "cache"
    /\ cmuHeld = NoEvent
    /\ minionCache' = [minionCache EXCEPT ![o.st] = @ \cup {o.name}]
    /\ rootDir' = rootDir \cup {o.name}
    /\ OpEnd(t, "ok")
    /\ UNCHANGED <<stateFile, links, pubs, cmuHeld, ech, nOps>>
    /\ UNCHANGED <<schedVars, streamVars, callVars, held, parse, app, dispVars, srvVars, lockVars>>

\* the first locked section of AcceptMinion / RejectMinion: the name leaves
\* the set it was found in, or the call returns "minion not found"
TakeFromSource(t, op, name, f1, f2, src) ==
    /\ OpFree(t)
    /\ cmuHeld = NoEvent
    /\ IF src = NoState
       THEN /\ OpReturn(t, "not found")
            /\ UNCHANGED <<minionCache, pre>>
       ELSE /\ OpBegin(t, op, "add", name, f1, f2, NoState)
            /\ minionCache' = [minionCache EXCEPT ![src] = @ \ {name}]
            /\ pre' = [pre EXCEPT ![t] = [cache |-> minionCache, links |-> links,
                                          sf |-> stateFile, nOps |-> nOps + 1,
                                          opr |-> opr]]
    /\ UNCHANGED <<stateFile, links, rootDir, pubs, cmuHeld, ech>>
    /\ UNCHANGED <<schedVars, streamVars, callVars, held, parse, app, dispVars, srvVars, rw, access>>

AcceptMinionBegin(t, name, includeRejected, includeDenied) ==
    TakeFromSource(t, "accept", name, includeRejected, includeDenied,
                   AcceptSource(minionCache, name, includeRejected, includeDenied))

RejectMinionBegin(t, name, includeAccepted, includeDenied) ==
    TakeFromSource(t, "reject", name, includeAccepted, includeDenied,
                   RejectSource(minionCache, name, includeAccepted, includeDenied))

\* the state AcceptMinion / RejectMinion moves the minion to
TargetState(op) == IF op = "accept" THEN Accepted ELSE Rejected

\* the second locked section: the name enters the target set
TargetSetAdd(t) ==
    LET o == opr[t] IN
    /\ o.op \in {"accept", "reject"} /\ o.pc = "add"
    /\ cmuHeld = NoEvent
    /\ minionCache' = [minionCache EXCEPT ![TargetState(o.op)] = @ \cup {o.name}]
    /\ OpGoto(t, "link")
    /\ UNCHANGED <<stateFile, links, rootDir, pubs, cmuHeld, ech, nOps>>
    /\ UNCHANGED <<schedVars, streamVars, callVars, held, parse, app, dispVars, srvVars, lockVars>>

\* acceptMinion / rejectMinion: getUpdate, then the symlink in the target
\* bucket; either failing ends the call
TargetLink(t) ==
    LET o == opr[t] IN
    /\ o.op \in {"accept", "reject"} /\ o.pc = "link"
    /\ IF stateFile[o.name] = NoState \/ o.name \in links[TargetState(o.op)]
       THEN /\ OpEnd(t, "error")
            /\ pre' = [pre EXCEPT ![t] = NoPre]
            /\ UNCHANGED links
       ELSE /\ links' = [links EXCEPT ![TargetState(o.op)] = @ \cup {o.name}]
            /\ opr' = [opr EXCEPT ![t].pc = "unlink", ![t].st = stateFile[o.name]]
            /\ UNCHANGED <<conc, pre>>
    /\ UNCHANGED <<stateFile, minionCache, rootDir, pubs, cmuHeld, ech, nOps>>
    /\ UNCHANGED <<schedVars, streamVars, callVars, held, parse, app, dispVars, srvVars, rw, access>>

\* acceptMinion / rejectMinion: the link in the bucket of the state read
\* before is removed (a failure is only logged)
SourceUnlink(t) ==
    LET o == opr[t] IN
    /\ o.op \in {"accept", "reject"} /\ o.pc = "unlink"
    /\ links' = RemoveLink(links, o.name, o.st)
    /\ OpGoto(t, "finish")
    /\ UNCHANGED <<stateFile, minionCache, rootDir, pubs, cmuHeld, ech, nOps>>
    /\ UNCHANGED <<schedVars, streamVars, callVars, held, parse, app, dispVars, srvVars, lockVars>>

\* AcceptMinion / RejectMinion: setUpdate, then go s.publish
TargetFinish(t) ==
    LET o == opr[t] IN
    /\ o.op \in {"accept", "reject"} /\ o.pc = "finish"
    /\ Len(pubs) < MaxPubs
    /\ stateFile' = SetUpdate(stateFile, rootDir, o.name, TargetState(o.op))
    /\ pubs' = Append(pubs, MinionEvent(o.name, TargetState(o.op), FALSE))
    /\ OpEnd(t, "ok")
    /\ pre' = [pre EXCEPT ![t] = NoPre]
    /\ UNCHANGED <<minionCache, links, rootDir, cmuHeld, ech, nOps>>
    /\ UNCHANGED <<schedVars, streamVars, callVars, held, parse, app, dispVars, srvVars, rw, access>>

\* DeleteMinion: getUpdate
DeleteMinionBegin(t, name) ==
    /\ OpFree(t)
    /\ IF stateFile[name] = NoState
       THEN OpReturn(t, "not found")
       ELSE OpBegin(t, "delete", "cache", name, FALSE, FALSE, stateFile[name])
    /\ UNCHANGED <<stateFile, minionCache, links, rootDir, pubs, cmuHeld, ech>>
    /\ UNCHANGED <<schedVars, streamVars, callVars, held, parse, app, dispVars, srvVars, lockVars>>

\* DeleteMinion: the name leaves the set of the state read
DeleteMinionCache(t) ==
    LET o == opr[t] IN
    /\ o.op = "delete" /\ o.pc = "cache"
    /\ cmuHeld = NoEvent
    /\ minionCache' = [minionCache EXCEPT ![o.st] = @ \ {o.name}]
    /\ OpGoto(t, "unlink")
    /\ UNCHANGED <<stateFile, links, rootDir, pubs, cmuHeld, ech, nOps>>
    /\ UNCHANGED <<schedVars, streamVars, callVars, held, parse, app, dispVars, srvVars, lockVars>>

\* deleteMinion: getUpdate again, then the bucket entry is removed
DeleteMinionUnlink(t) ==
    LET o == opr[t] IN
    /\ o.op = "delete" /\ o.pc = "unlink"
    /\ IF stateFile[o.name] = NoState
       THEN /\ OpEnd(t, "not found")
            /\ UNCHANGED links
       ELSE /\ links' = RemoveLink(links, o.name, stateFile[o.name])
            /\ OpGoto(t, "remove")
    /\ UNCHANGED <<stateFile, minionCache, rootDir, pubs, cmuHeld, ech, nOps>>
    /\ UNCHANGED <<schedVars, streamVars, callVars, held, parse, app, dispVars, srvVars, lockVars>>

\* DeleteMinion: go s.publish of the deleted event, then os.RemoveAll
DeleteMinionRemove(t) ==
    LET o == opr[t] IN
    /\ o.op = "delete" /\ o.pc = "remove"
    /\ Len(pubs) < MaxPubs
    /\ pubs' = Append(pubs, MinionEvent(o.name, o.st, TRUE))
    /\ stateFile' = [stateFile EXCEPT ![o.name] = NoState]
    /\ rootDir' = rootDir \ {o.name}
    /\ OpEnd(t, "ok")
    /\ UNCHANGED <<minionCache, links, cmuHeld, ech, nOps>>
    /\ UNCHANGED <<schedVars, streamVars, callVars, held, parse, app, dispVars, srvVars, lockVars>>

(***************************************************************************)
(* Storage.cmu as the sync.RWMutex it is, and AcceptMinion, RejectMinion   *)
(* and GetMinions with each access to a per-state set as a step of its own *)
(* (internal/master/storage.go; the sets are dsutil.HashSet, a Go map with *)
(* no lock of its own).                                                    *)
(***************************************************************************)

InitCmu ==
    /\ rw = [writer |-> NoThread, readers |-> {}]
    /\ access = [t \in Threads |-> NoAcc]
    /\ pre = [t \in Threads |-> NoPre]

\* a variant of CmuRLock that takes the lock exclusively
CmuRLockExclusive(t) ==
    /\ CmuFree
    /\ rw' = [rw EXCEPT !.writer = t]

\* s.cmu.RLock(): granted while no writer holds the lock
CmuRLock(t) ==
    /\ cmuHeld = NoEvent /\ rw.writer = NoThread
    /\ rw' = [rw EXCEPT !.readers = @ \cup {t}]

\* s.cmu.Lock(): granted while nobody holds the lock
CmuLock(t) ==
    /\ CmuFree
    /\ rw' = [rw EXCEPT !.writer = t]

\* s.cmu.RUnlock() / s.cmu.Unlock()
CmuUnlock(t) ==
    rw' = [writer |-> IF rw.writer = t THEN NoThread ELSE rw.writer,
           readers |-> rw.readers \ {t}]

\* the set AcceptMinion / RejectMinion looks into after the set cur did not
\* hold the name, NoState when the search is over
NextProbe(op, f1, f2, cur) ==
    IF op = "accept"
    THEN CASE cur = Unaccepted -> IF f1 THEN Rejected ELSE IF f2 THEN Denied ELSE NoState
           [] cur = Rejected -> IF f2 THEN Denied ELSE NoState
           [] OTHER -> NoState
    ELSE IF op = "reject"
    THEN CASE cur = Unaccepted -> IF f1 THEN Accepted ELSE IF f2 THEN Denied ELSE NoState
           [] cur = Accepted -> AutoSign
           [] cur = AutoSign -> IF f2 THEN Denied ELSE NoState
           [] OTHER -> NoState
    ELSE NoState

\* another thread is in an access to the same set and one of the two writes:
\* a data race on the Go map
Racing(t) ==
    /\ access[t].kind # "none"
    /\ \E u \in Threads \ {t} :
          /\ access[u].kind # "none"
          /\ access[u].st = access[t].st
          /\ "write" \in {access[t].kind, access[u].kind}

LockFrame == UNCHANGED <<stateFile, links, rootDir, pubs, cmuHeld, ech,
                         schedVars, streamVars, callVars, held, parse, app,
                         dispVars, srvVars, pre>>

\* AcceptMinion: s.cmu.RLock() before the search
AcceptMinionRLock(t, name, includeRejected, includeDenied) ==
    /\ OpFree(t)
    /\ CmuRLock(t)
    /\ OpBegin(t, "accept", "probe", name, includeRejected, includeDenied, Unaccepted)
    /\ UNCHANGED <<minionCache, access>>
    /\ LockFrame

\* RejectMinion: s.cmu.Lock() before the search
RejectMinionLock(t, name, includeAccepted, includeDenied) ==
    /\ OpFree(t)
    /\ CmuLock(t)
    /\ OpBegin(t, "reject", "probe", name, includeAccepted, includeDenied, Unaccepted)
    /\ UNCHANGED <<minionCache, access>>
    /\ LockFrame

\* GetMinions: s.cmu.Lock() before the set of the state is read
GetMinionsLock(t, state) ==
    /\ OpFree(t)
    /\ CmuLock(t)
    /\ OpBegin(t, "get", "probe", "", FALSE, FALSE, state)
    /\ UNCHANGED <<minionCache, access>>
    /\ LockFrame

\* sets.Contains(name), or the read of GetMinions, begins
ProbeBegin(t) ==
    LET o == opr[t] IN
    /\ o.op \in {"accept", "reject", "get"} /\ o.pc = "probe"
    /\ access' = [access EXCEPT ![t] = [kind |-> "read", st |-> o.st]]
    /\ OpGoto(t, "probing")
    /\ UNCHANGED <<minionCache, rw, nOps>>
    /\ LockFrame

\* sets.Contains(name) returns: the name is removed from this set, or the
\* next set is searched, or the search is over; a read that races with a
\* write returns either answer
ProbeEnd(t) ==
    LET o == opr[t] IN
    /\ o.op \in {"accept", "reject", "get"} /\ o.pc = "probing"
    /\ access' = [access EXCEPT ![t] = NoAcc]
    /\ IF o.op = "get"
       THEN opr' = [opr EXCEPT ![t].pc = "unlock"]
       ELSE \E exists \in (IF Racing(t) THEN BOOLEAN
                           ELSE {o.name \in minionCache[o.st]}) :
              IF exists
              THEN opr' = [opr EXCEPT ![t].pc = "remove"]
              ELSE LET nx == NextProbe(o.op, o.f1, o.f2, o.st)
                   IN  opr' = [opr EXCEPT ![t].st = nx,
                                          ![t].pc = IF nx = NoState THEN "unlock"
                                                    ELSE "probe"]
    /\ UNCHANGED <<minionCache, rw, nOps, conc>>
    /\ LockFrame

\* sets.Remove(name) begins
SourceRemoveBegin(t) ==
    LET o == opr[t] IN
    /\ o.op \in {"accept", "reject"} /\ o.pc = "remove"
    /\ access' = [access EXCEPT ![t] = [kind |-> "write", st |-> o.st]]
    /\ OpGoto(t, "removing")
    /\ UNCHANGED <<minionCache, rw, nOps>>
    /\ LockFrame

\* sets.Remove(name) returns; a write that races with another access may be
\* lost
SourceRemoveEnd(t) ==
    LET o == opr[t] IN
    /\ o.op \in {"accept", "reject"} /\ o.pc = "removing"
    /\ access' = [access EXCEPT ![t] = NoAcc]
    /\ \E done \in (IF Racing(t) THEN BOOLEAN ELSE {TRUE}) :
          minionCache' = IF done THEN [minionCache EXCEPT ![o.st] = @ \ {o.name}]
                         ELSE minionCache
    /\ OpGoto(t, "unlock")
    /\ UNCHANGED <<rw, nOps>>
    /\ LockFrame

\* the end of the first locked section: s.cmu.RUnlock() / s.cmu.Unlock();
\* "minion not found" when the search found nothing
SectionUnlock(t) ==
    LET o == opr[t] IN
    /\ o.op \in {"accept", "reject", "get"} /\ o.pc = "unlock"
    /\ CmuUnlock(t)
    /\ IF o.op = "get" THEN OpEnd(t, "ok")
       ELSE IF o.st = NoState THEN OpEnd(t, "not found")
       ELSE OpGoto(t, "lock")
    /\ UNCHANGED <<minionCache, access, nOps>>
    /\ LockFrame

\* s.cmu.Lock() of the second locked section
TargetLock(t) ==
    LET o == opr[t] IN
    /\ o.op \in {"accept", "reject"} /\ o.pc = "lock"
    /\ CmuLock(t)
    /\ OpGoto(t, "put")
    /\ UNCHANGED <<minionCache, access, nOps>>
    /\ LockFrame

\* s.minionCache[target].Add(name) begins
TargetAddBegin(t) ==
    LET o == opr[t] IN
    /\ o.op \in {"accept", "reject"} /\ o.pc = "put"
    /\ access' = [access EXCEPT ![t] = [kind |-> "write", st |-> TargetState(o.op)]]
    /\ OpGoto(t, "putting")
    /\ UNCHANGED <<minionCache, rw, nOps>>
    /\ LockFrame

\* s.minionCache[target].Add(name) returns
TargetAddEnd(t) ==
    LET o == opr[t] IN
    /\ o.op \in {"accept", "reject"} /\ o.pc = "putting"
    /\ access' = [access EXCEPT ![t] = NoAcc]
    /\ \E done \in (IF Racing(t) THEN BOOLEAN ELSE {TRUE}) :
          minionCache' = IF done
                         THEN [minionCache EXCEPT ![TargetState(o.op)] = @ \cup {o.name}]
                         ELSE minionCache
    /\ OpGoto(t, "unlock2")
    /\ UNCHANGED <<rw, nOps>>
    /\ LockFrame

\* s.cmu.Unlock() of the second locked section; acceptMinion / rejectMinion
\* follow
TargetUnlock(t) ==
    LET o == opr[t] IN
    /\ o.op \in {"accept", "reject"} /\ o.pc = "unlock2"
    /\ CmuUnlock(t)
    /\ OpGoto(t, "link")
    /\ UNCHANGED <<minionCache, access, nOps>>
    /\ LockFrame

\* the Go runtime detects the racing access to the map and ends the process
\* ("fatal error: concurrent map read and map write")
MapFatal(t) ==
    /\ Racing(t)
    /\ opr' = [u \in Threads |-> [IdleOp("fatal") EXCEPT !.op = "fatal"]]
    /\ pubs' = <<>>
    /\ cmuHeld' = NoEvent
    /\ runPc' = "fatal"
    /\ UNCHANGED <<stateFile, minionCache, links, rootDir, ech, nOps>>
    /\ UNCHANGED <<pipes, minions, idNext, idUsed, taskStore, mch, runPack>>
    /\ UNCHANGED <<streamVars, callVars, held, conc, parse, app, dispVars, srvVars, lockVars>>

(***************************************************************************)
(* Id allocator, messages, tasks (internal/master/scheduler.go).           *)
(***************************************************************************)
\* a variant of GetId that skips 0 but not the ids in the live set
RECURSIVE GetIdNoSkip(_, _)
GetIdNoSkip(next, used) ==
    LET id == next % IdMod
        n1 == (next + 1) % IdMod
    IN  IF id = 0 THEN GetIdNoSkip(n1, used)
        ELSE [id |-> id, next |-> n1]

\* idAllocator.Get: [id, next] for the counter value next and the live set
RECURSIVE GetId(_, _)
GetId(next, used) ==
    LET id == next % IdMod
        n1 == (next + 1) % IdMod
    IN  IF id = 0 \/ id \in used THEN GetId(n1, used)
        ELSE [id |-> id, next |-> n1]

\* a goroutine calls idAllocator.Get; with every id live Get never returns
IdGet(h) ==
    /\ held[h] = 0
    /\ idUsed # Ids
    /\ LET got == GetId(idNext, idUsed)
       IN  /\ idNext' = got.next
           /\ idUsed' = idUsed \cup {got.id}
           /\ held' = [held EXCEPT ![h] = got.id]
    /\ UNCHANGED <<pipes, minions, taskStore, mch, runPc, runPack>>
    /\ UNCHANGED <<storeVars, streamVars, callVars, opr, conc, parse, app, dispVars, srvVars, lockVars>>

\* the goroutine calls idAllocator.Free on the id it holds
IdFree(h) ==
    /\ held[h] # 0
    /\ held[h] \in idUsed
    /\ idUsed' = idUsed \ {held[h]}
    /\ held' = [held EXCEPT ![h] = 0]
    /\ UNCHANGED <<pipes, minions, idNext, taskStore, mch, runPc, runPack>>
    /\ UNCHANGED <<storeVars, streamVars, callVars, opr, conc, parse, app, dispVars, srvVars, lockVars>>

\* CallResponse values: type is "skip" (the zero value), "ok" or "error"
NoCall == [type |-> "nil"]
CallResponse(type, error, result) == [type |-> type, error |-> error, result |-> result]

\* the frames a minion can answer a call with
ReplyKinds == {"ok", "error", "garbage", "errframe"}

\* pipe.start: the message put on mch for a reply frame of the given kind
ReplyMessage(name, id, kind) ==
    CASE kind = "errframe" -> [id |-> id, name |-> name, done |-> TRUE, err |-> "", call |-> NoCall]
      [] kind = "garbage" -> [id |-> id, name |-> name, done |-> FALSE, err |-> "decode", call |-> NoCall]
      [] kind = "error" -> [id |-> id, name |-> name, done |-> FALSE, err |-> "",
                             call |-> CallResponse("error", "exit status 1", "out")]
      [] OTHER -> [id |-> id, name |-> name, done |-> FALSE, err |-> "",
                   call |-> CallResponse("ok", "", "out")]

\* pipe.start: the message put on mch when the stream ends
DoneMessage(name) == [id |-> 0, name |-> name, done |-> TRUE, err |-> "", call |-> NoCall]

\* Run: the effective CallResponse of a message that is not a done message
EffectiveCall(m) ==
    LET msg == IF m.call = NoCall THEN CallResponse("skip", "", "") ELSE m.call
    IN  IF m.err # "" THEN [msg EXCEPT !.type = "error", !.error = m.err] ELSE msg

\* newTask over the report selectPipe built
NewTask(sel) ==
    [total |-> sel.total, gets |-> 0, ch |-> <<>>,
     items |-> sel.items, nameIdx |-> sel.nameIdx, got |-> {}]

\* a variant of TaskConsume that appends every response to the report
\* instead of writing it into the minion's slot
TaskConsumeAppend(t, p) ==
    [t EXCEPT !.gets = t.gets + 1,
              !.ch = Tail(t.ch),
              !.got = t.got \cup {p.name},
              !.items = Append(t.items,
                               [minion |-> p.name, result |-> p.call.type = "ok",
                                error |-> p.call.error, data |-> p.call.result])]

\* a variant of TaskConsume that counts the pack but drops its payload
TaskConsumeCountOnly(t, p) ==
    [t EXCEPT !.gets = t.gets + 1, !.ch = Tail(t.ch), !.got = t.got \cup {p.name}]

\* task.execute: the task after it has taken pack p from its channel
\* (got is a history field: the names whose packs execute has taken)
TaskConsume(t, p) ==
    LET known == p.name \in DOMAIN t.nameIdx
        idx == IF known THEN t.nameIdx[p.name] ELSE Len(t.items) + 1
        old == IF known THEN t.items[idx] ELSE EmptyItem(p.name)
        new == [old EXCEPT !.error = p.call.error,
                           !.data = p.call.result,
                           !.result = IF p.call.type = "ok" THEN TRUE ELSE old.result]
    IN  [t EXCEPT !.gets = t.gets + 1,
                  !.ch = Tail(t.ch),
                  !.got = t.got \cup {p.name},
                  !.items = IF known THEN [t.items EXCEPT ![idx] = new]
                            ELSE Append(t.items, new)]

\* what a HandleCall returned: err, whether the Response is non-nil, and the
\* call's id, report and counters at the moment of return (history)
Ret(err, rsp, id, sel, t) ==
    [err |-> err, rsp |-> rsp, id |-> id, items |-> t.items, total |-> t.total,
     gets |-> t.gets, got |-> t.got, names |-> sel.names, failed |-> sel.failed]
NoRet == Ret("none", FALSE, 0, EmptySel, [items |-> <<>>, total |-> 0, gets |-> 0, got |-> {}])

(***************************************************************************)
(* Scheduler.Run.                                                          *)
(***************************************************************************)
\* case m := <-s.mch
RunMsg ==
    /\ runPc = "select"
    /\ mch # <<>>
    /\ mch' = Tail(mch)
    /\ LET m == Head(mch)
           pack == [name |-> m.name, call |-> EffectiveCall(m)]
       IN  IF m.done
           THEN \* removePipe(m.name)
                /\ pipes' = [pipes EXCEPT ![m.name] = NoPipe]
                /\ UNCHANGED <<taskStore, runPc, runPack>>
           ELSE IF taskStore[m.id] = NoTask
           THEN UNCHANGED <<pipes, taskStore, runPc, runPack>>
           ELSE IF Len(taskStore[m.id].ch) < TaskChCap
           THEN \* t.notify returns at once
                /\ taskStore' = [taskStore EXCEPT ![m.id].ch = Append(@, pack)]
                /\ UNCHANGED <<pipes, runPc, runPack>>
           ELSE \* t.notify blocks in t.ch <- pack, with tmu read-locked
                /\ runPc' = "notify"
                /\ runPack' = [id |-> m.id, pack |-> pack]
                /\ UNCHANGED <<pipes, taskStore>>
    /\ UNCHANGED <<minions, idNext, idUsed, storeVars, streamVars, callVars>>
    /\ UNCHANGED auxVars

\* the blocked t.ch <- pack completes once execute has taken a pack
RunNotify ==
    /\ runPc = "notify"
    /\ Len(taskStore[runPack.id].ch) < TaskChCap
    /\ taskStore' = [taskStore EXCEPT ![runPack.id].ch = Append(@, runPack.pack)]
    /\ runPc' = "select"
    /\ runPack' = NoPack
    /\ UNCHANGED <<pipes, minions, idNext, idUsed, mch, storeVars, streamVars, callVars>>
    /\ UNCHANGED auxVars

\* case e := <-s.ech
RunEvent ==
    /\ runPc = "select"
    /\ ech # <<>>
    /\ ech' = Tail(ech)
    /\ LET e == Head(ech)
       IN  minions' =
             IF e.deleted THEN minions \ {e.minion}
             ELSE IF e.state \in {Accepted, AutoSign}
                  THEN IF pipes[e.minion] # NoPipe THEN minions \cup {e.minion} ELSE minions
             ELSE IF e.state \in {Rejected, Denied} THEN minions \ {e.minion}
             ELSE minions
    /\ UNCHANGED <<stateFile, minionCache, links, rootDir, pubs, cmuHeld, nOps>>
    /\ UNCHANGED <<pipes, idNext, idUsed, taskStore, mch, runPc, runPack, streamVars, callVars>>
    /\ UNCHANGED auxVars

(***************************************************************************)
(* internalHandler.Dispatch, Scheduler.AddStream and pipe.start.           *)
(***************************************************************************)
\* a variant of AddStreamCheck without the test of the pipe table
AddStreamCheckNoTest(s, name) ==
    /\ spc[s] = "idle"
    /\ sname' = [sname EXCEPT ![s] = name]
    /\ AddMinion(name)
    /\ sstate' = [sstate EXCEPT ![s] = AddMinionState(name)]
    /\ spc' = [spc EXCEPT ![s] = "adding"]
    /\ UNCHANGED <<pubs, cmuHeld, ech, nOps, inbox, schedVars, callVars>>
    /\ UNCHANGED auxVars

\* AddStream up to the return of Storage.AddMinion
AddStreamCheck(s, name) ==
    /\ spc[s] = "idle"
    /\ sname' = [sname EXCEPT ![s] = name]
    /\ IF pipes[name] # NoPipe
       THEN \* "minion %s already exists"
            /\ spc' = [spc EXCEPT ![s] = "rejected"]
            /\ UNCHANGED <<stateFile, minionCache, links, rootDir, sstate>>
       ELSE /\ AddMinion(name)
            /\ sstate' = [sstate EXCEPT ![s] = AddMinionState(name)]
            /\ spc' = [spc EXCEPT ![s] = "adding"]
    /\ UNCHANGED <<pubs, cmuHeld, ech, nOps, inbox, schedVars, callVars>>
    /\ UNCHANGED auxVars

\* the rest of AddStream: the pipe enters the table, an accepted or
\* auto-signed minion enters the eligible map; Dispatch then runs p.start()
AddStreamAttach(s) ==
    /\ spc[s] = "adding"
    /\ pipes' = [pipes EXCEPT ![sname[s]] = s]
    /\ minions' = IF sstate[s] \in {Accepted, AutoSign} THEN minions \cup {sname[s]} ELSE minions
    /\ spc' = [spc EXCEPT ![s] = "running"]
    /\ sstate' = [sstate EXCEPT ![s] = NoState]
    /\ UNCHANGED <<idNext, idUsed, taskStore, mch, runPc, runPack>>
    /\ UNCHANGED <<sname, inbox, storeVars, callVars>>
    /\ UNCHANGED auxVars

\* Dispatch step by step.  The rest of AddStream: the pipe enters the
\* table, an accepted or auto-signed minion enters the eligible map; the
\* Connect reply is not sent yet
DispatchAddStream(s) ==
    /\ spc[s] = "adding"
    /\ pipes' = [pipes EXCEPT ![sname[s]] = s]
    /\ minions' = IF sstate[s] \in {Accepted, AutoSign} THEN minions \cup {sname[s]} ELSE minions
    /\ spc' = [spc EXCEPT ![s] = "attached"]
    /\ sstate' = [sstate EXCEPT ![s] = NoState]
    /\ UNCHANGED <<idNext, idUsed, taskStore, mch, runPc, runPack>>
    /\ UNCHANGED <<sname, inbox, storeVars, callVars>>
    /\ UNCHANGED auxVars

\* Dispatch: stream.Send(reply) with the master's public key, then p.start()
DispatchReply(s) ==
    /\ spc[s] = "attached"
    /\ spc' = [spc EXCEPT ![s] = "running"]
    /\ UNCHANGED <<sname, sstate, inbox, storeVars, schedVars, callVars>>
    /\ UNCHANGED auxVars

\* the minion answers the oldest call it was sent; p.start turns the frame
\* into a message on mch
PipeReply(s, kind) ==
    /\ spc[s] = "running"
    /\ inbox[s] # <<>>
    /\ Len(mch) < MchCap
    /\ mch' = Append(mch, ReplyMessage(sname[s], Head(inbox[s]), kind))
    /\ inbox' = [inbox EXCEPT ![s] = Tail(@)]
    /\ UNCHANGED <<pipes, minions, idNext, idUsed, taskStore, runPc, runPack>>
    /\ UNCHANGED <<spc, sname, sstate, storeVars, callVars>>
    /\ UNCHANGED auxVars

\* the minion sends a call frame with an id of its own choosing (an answer
\* repeated, or one to a call it was never sent); p.start turns it into a
\* message on mch like any other frame.  Only frames for the id of a call
\* that waits for its responses are followed: Run drops those for an id
\* without a task
PipeFrame(s, id, kind) ==
    /\ spc[s] = "running"
    /\ \E c \in Callers : cid[c] = id /\ cpc[c] = "execute"
    /\ Len(mch) < MchCap
    /\ mch' = Append(mch, ReplyMessage(sname[s], id, kind))
    /\ UNCHANGED <<pipes, minions, idNext, idUsed, taskStore, runPc, runPack>>
    /\ UNCHANGED <<streamVars, storeVars, callVars>>
    /\ UNCHANGED auxVars

\* the stream ends (EOF, cancelled context or error): p.start reports done
\* and returns
PipeDone(s) ==
    /\ spc[s] = "running"
    /\ Len(mch) < MchCap
    /\ mch' = Append(mch, DoneMessage(sname[s]))
    /\ spc' = [spc EXCEPT ![s] = "closed"]
    /\ inbox' = [inbox EXCEPT ![s] = <<>>]
    /\ UNCHANGED <<pipes, minions, idNext, idUsed, taskStore, runPc, runPack>>
    /\ UNCHANGED <<sname, sstate, storeVars, callVars>>
    /\ UNCHANGED auxVars

(***************************************************************************)
(* Scheduler.HandleCall.                                                   *)
(***************************************************************************)
\* idAlloc.Get and selectPipe
CallStart(c, opts, order) ==
    /\ cpc[c] = "idle"
    /\ nCalls < MaxCalls
    /\ idUsed # Ids
    /\ nCalls' = nCalls + 1
    /\ LET got == GetId(idNext, idUsed)
           sel == SelectPipe(opts, pipes, minions, order)
       IN  /\ idNext' = got.next
           /\ IF opts = NilOptions \/ NoTarget(sel)
              THEN \* bad request ("no selection options" or "no target
                   \* selected"); the deferred Free runs
                   /\ cret' = [cret EXCEPT ![c] =
                                  [NoRet EXCEPT !.err = "bad request", !.id = got.id]]
                   /\ UNCHANGED <<idUsed, taskStore, cpc, cid, csel, csent>>
              ELSE /\ idUsed' = idUsed \cup {got.id}
                   /\ cid' = [cid EXCEPT ![c] = got.id]
                   /\ csel' = [csel EXCEPT ![c] = sel]
                   /\ csent' = [csent EXCEPT ![c] = 0]
                   /\ cret' = [cret EXCEPT ![c] = NoRet]
                   /\ cpc' = [cpc EXCEPT ![c] = "insert"]
                   /\ UNCHANGED taskStore
    /\ UNCHANGED <<pipes, minions, mch, runPc, runPack, storeVars, streamVars>>
    /\ UNCHANGED auxVars

\* a variant of CallInsert that goes on to the send loop with the task not
\* yet in the table
CallInsertLater(c) ==
    /\ cpc[c] = "insert"
    /\ runPc = "select"
    /\ cpc' = [cpc EXCEPT ![c] = "send"]
    /\ UNCHANGED <<pipes, minions, idNext, idUsed, taskStore, mch, runPc, runPack>>
    /\ UNCHANGED <<cid, csel, csent, cret, nCalls, storeVars, streamVars>>
    /\ UNCHANGED auxVars

\* newTask; s.tmu.Lock(); s.taskStore[nextId] = t: the lock is free unless
\* Run holds it, blocked in notify
CallInsert(c) ==
    /\ cpc[c] = "insert"
    /\ runPc = "select"
    /\ taskStore' = [taskStore EXCEPT ![cid[c]] = NewTask(csel[c])]
    /\ cpc' = [cpc EXCEPT ![c] = "send"]
    /\ UNCHANGED <<pipes, minions, idNext, idUsed, mch, runPc, runPack>>
    /\ UNCHANGED <<cid, csel, csent, cret, nCalls, storeVars, streamVars>>
    /\ UNCHANGED auxVars

\* one iteration of the send loop: p.send fails on a stream that has ended
CallSend(c) ==
    /\ cpc[c] = "send"
    /\ LET i == csent[c] + 1
           s == csel[c].pipes[i]
       IN  /\ csent' = [csent EXCEPT ![c] = i]
           /\ IF spc[s] \in {"attached", "running"}
              THEN /\ inbox' = [inbox EXCEPT ![s] = Append(@, cid[c])]
                   /\ UNCHANGED csel
              ELSE \* the error is logged and the loop goes on
                   /\ csel' = [csel EXCEPT ![c].failed = @ + 1]
                   /\ UNCHANGED inbox
           /\ cpc' = [cpc EXCEPT ![c] = IF i = Len(csel[c].pipes) THEN "execute" ELSE "send"]
    /\ UNCHANGED <<spc, sname, sstate, cid, cret, nCalls, storeVars, schedVars>>
    /\ UNCHANGED auxVars

\* a variant of CallExecute that continues the loop after every pack, as
\* execute does after a pack without a call
CallExecuteContinue(c) ==
    /\ cpc[c] = "execute"
    /\ taskStore[cid[c]].ch # <<>>
    /\ LET t == TaskConsume(taskStore[cid[c]], Head(taskStore[cid[c]].ch))
       IN  /\ taskStore' = [taskStore EXCEPT ![cid[c]] = t]
           /\ UNCHANGED cpc
    /\ UNCHANGED <<pipes, minions, idNext, idUsed, mch, runPc, runPack>>
    /\ UNCHANGED <<cid, csel, csent, cret, nCalls, storeVars, streamVars>>
    /\ UNCHANGED auxVars

\* task.execute takes a pack from t.ch
CallExecute(c) ==
    /\ cpc[c] = "execute"
    /\ taskStore[cid[c]].ch # <<>>
    /\ LET t == TaskConsume(taskStore[cid[c]], Head(taskStore[cid[c]].ch))
       IN  /\ taskStore' = [taskStore EXCEPT ![cid[c]] = t]
           /\ cpc' = [cpc EXCEPT ![c] = IF t.gets >= t.total THEN "delete" ELSE "execute"]
    /\ UNCHANGED <<pipes, minions, idNext, idUsed, mch, runPc, runPack>>
    /\ UNCHANGED <<cid, csel, csent, cret, nCalls, storeVars, streamVars>>
    /\ UNCHANGED auxVars

\* a variant of CallTimeout in which the id is freed on the success path only
CallTimeoutNoFree(c) ==
    /\ cpc[c] = "execute"
    /\ cret' = [cret EXCEPT ![c] = Ret("deadline", FALSE, cid[c], csel[c], taskStore[cid[c]])]
    /\ cpc' = [cpc EXCEPT ![c] = "idle"]
    /\ cid' = [cid EXCEPT ![c] = 0]
    /\ csel' = [csel EXCEPT ![c] = EmptySel]
    /\ csent' = [csent EXCEPT ![c] = 0]
    /\ UNCHANGED <<pipes, minions, idNext, idUsed, taskStore, mch, runPc, runPack>>
    /\ UNCHANGED <<nCalls, storeVars, streamVars>>
    /\ UNCHANGED auxVars

\* task.execute sees ctx.Done(): HandleCall returns nil and the context's
\* error; the deferred Free runs
CallTimeout(c) ==
    /\ cpc[c] = "execute"
    /\ cret' = [cret EXCEPT ![c] = Ret("deadline", FALSE, cid[c], csel[c], taskStore[cid[c]])]
    /\ idUsed' = idUsed \ {cid[c]}
    /\ cpc' = [cpc EXCEPT ![c] = "idle"]
    /\ cid' = [cid EXCEPT ![c] = 0]
    /\ csel' = [csel EXCEPT ![c] = EmptySel]
    /\ csent' = [csent EXCEPT ![c] = 0]
    /\ UNCHANGED <<pipes, minions, idNext, taskStore, mch, runPc, runPack>>
    /\ UNCHANGED <<nCalls, storeVars, streamVars>>
    /\ UNCHANGED auxVars

\* execute returned nil: the task leaves the table and the report is returned
CallDelete(c) ==
    /\ cpc[c] = "delete"
    /\ runPc = "select"
    /\ taskStore' = [taskStore EXCEPT ![cid[c]] = NoTask]
    /\ cret' = [cret EXCEPT ![c] = Ret("", TRUE, cid[c], csel[c], taskStore[cid[c]])]
    /\ idUsed' = idUsed \ {cid[c]}
    /\ cpc' = [cpc EXCEPT ![c] = "idle"]
    /\ cid' = [cid EXCEPT ![c] = 0]
    /\ csel' = [csel EXCEPT ![c] = EmptySel]
    /\ csent' = [csent EXCEPT ![c] = 0]
    /\ UNCHANGED <<pipes, minions, idNext, mch, runPc, runPack>>
    /\ UNCHANGED <<nCalls, storeVars, streamVars>>
    /\ UNCHANGED auxVars

(***************************************************************************)
(* The minion's Dispatcher (client/dispatch.go): the goroutine process,    *)
(* the consumer Recv, and the environment: the master going away and       *)
(* coming back, the client closing, the context ending.                    *)
(***************************************************************************)
\* the capacity of Dispatcher.ech
DispEchCap == 10

NoDispEvent == [kind |-> "none", next |-> "none"]

\* retryInterval, in milliseconds
retryInterval(n) ==
    IF n <= 0 THEN 100
    ELSE IF n > 5 THEN 60 * 1000
    ELSE n * 10 * 1000

\* the state NewDispatcher leaves: connected, process at the head of its loop
InitDispatcher ==
    /\ dpc = "timer"
    /\ attempts = 0
    /\ interval = 0
    /\ connected = TRUE
    /\ dstream = "ok"
    /\ dech = <<>>
    /\ dpend = NoDispEvent
    /\ closed = FALSE
    /\ cancelled = FALSE
    /\ reachable = TRUE
    /\ nBreaks = 0
    /\ nSent = 0

DispatchFrame == UNCHANGED <<storeVars, schedVars, streamVars, callVars, held, opr, conc,
                             parse, app, srvVars, lockVars>>

\* process, the head of the loop START: the timer is reset and fires
ProcessTimer ==
    /\ dpc = "timer"
    /\ interval' = retryInterval(attempts)
    /\ attempts' = IF attempts < MaxAttempts THEN attempts + 1 ELSE attempts
    /\ dpc' = "check"
    /\ UNCHANGED <<connected, dstream, dech, dpend, closed, cancelled, reachable, nBreaks, nSent>>
    /\ DispatchFrame

\* process, the head of the loop START: done is closed, process returns
ProcessTimerDone ==
    /\ dpc = "timer"
    /\ closed
    /\ interval' = retryInterval(attempts)
    /\ attempts' = IF attempts < MaxAttempts THEN attempts + 1 ELSE attempts
    /\ dpc' = "ended"
    /\ UNCHANGED <<connected, dstream, dech, dpend, closed, cancelled, reachable, nBreaks, nSent>>
    /\ DispatchFrame

\* process: the dispatcher is connected, on to the receive loop
ProcessConnected ==
    /\ dpc = "check"
    /\ connected
    /\ dpc' = "loop"
    /\ UNCHANGED <<attempts, interval, connected, dstream, dech, dpend, closed, cancelled,
                   reachable, nBreaks, nSent>>
    /\ DispatchFrame

\* process: not connected, connect succeeds and attempts is reset
ProcessReconnect ==
    /\ dpc = "check"
    /\ ~connected
    /\ reachable /\ ~cancelled
    /\ dstream' = "ok"
    /\ connected' = TRUE
    /\ attempts' = 0
    /\ dpc' = "loop"
    /\ UNCHANGED <<interval, dech, dpend, closed, cancelled, reachable, nBreaks, nSent>>
    /\ DispatchFrame

\* process: not connected, connect fails; an error other than "unavailable"
\* is put on ech; then break START, which ends process
ProcessReconnectFail(unavailable) ==
    /\ dpc = "check"
    /\ ~connected
    /\ ~reachable \/ cancelled
    /\ IF unavailable
       THEN /\ connected' = FALSE
            /\ dpc' = "ended"
            /\ UNCHANGED dpend
       ELSE /\ dpend' = [kind |-> "err", next |-> "ended"]
            /\ dpc' = "notify"
            /\ UNCHANGED connected
    /\ UNCHANGED <<attempts, interval, dstream, dech, closed, cancelled, reachable, nBreaks, nSent>>
    /\ DispatchFrame

\* process, the select of LOOP: the context has ended or done is closed
ProcessReturn ==
    /\ dpc = "loop"
    /\ cancelled \/ closed
    /\ dpc' = "ended"
    /\ UNCHANGED <<attempts, interval, connected, dstream, dech, dpend, closed, cancelled,
                   reachable, nBreaks, nSent>>
    /\ DispatchFrame

\* process, the select of LOOP: neither, on to stream.Recv
ProcessDefault ==
    /\ dpc = "loop"
    /\ ~cancelled /\ ~closed
    /\ dpc' = "recv"
    /\ UNCHANGED <<attempts, interval, connected, dstream, dech, dpend, closed, cancelled,
                   reachable, nBreaks, nSent>>
    /\ DispatchFrame

\* process: stream.Recv returns a call of the master
ProcessRecvCall ==
    /\ dpc = "recv"
    /\ dstream = "ok"
    /\ reachable
    /\ nSent < MaxDispCalls
    /\ nSent' = nSent + 1
    /\ dpend' = [kind |-> "call", next |-> "loop"]
    /\ dpc' = "notify"
    /\ UNCHANGED <<attempts, interval, connected, dstream, dech, closed, cancelled,
                   reachable, nBreaks>>
    /\ DispatchFrame

\* process: stream.Recv returns an error; break LOOP, back to the head of START
ProcessRecvError(unavailable) ==
    /\ dpc = "recv"
    /\ dstream = "broken"
    /\ IF unavailable
       THEN /\ connected' = FALSE
            /\ dpc' = "timer"
            /\ UNCHANGED dpend
       ELSE /\ dpend' = [kind |-> "err", next |-> "timer"]
            /\ dpc' = "notify"
            /\ UNCHANGED connected
    /\ UNCHANGED <<attempts, interval, dstream, dech, closed, cancelled, reachable, nBreaks, nSent>>
    /\ DispatchFrame

\* process: d.ech <- event, which waits while ech is full; after an error
\* event connected is cleared
ProcessNotify ==
    /\ dpc = "notify"
    /\ Len(dech) < DispEchCap
    /\ dech' = Append(dech, dpend.kind)
    /\ connected' = IF dpend.kind = "err" THEN FALSE ELSE connected
    /\ dpc' = dpend.next
    /\ dpend' = NoDispEvent
    /\ UNCHANGED <<attempts, interval, dstream, closed, cancelled, reachable, nBreaks, nSent>>
    /\ DispatchFrame

\* Dispatcher.Recv takes an event
DispatcherRecv ==
    /\ dech # <<>>
    /\ ~closed /\ ~cancelled
    /\ dech' = Tail(dech)
    /\ UNCHANGED <<dpc, attempts, interval, connected, dstream, dpend, closed, cancelled,
                   reachable, nBreaks, nSent>>
    /\ DispatchFrame

\* the master goes away: the stream breaks and connecting fails
MasterDown ==
    /\ reachable
    /\ nBreaks < MaxBreaks
    /\ nBreaks' = nBreaks + 1
    /\ reachable' = FALSE
    /\ dstream' = "broken"
    /\ UNCHANGED <<dpc, attempts, interval, connected, dech, dpend, closed, cancelled, nSent>>
    /\ DispatchFrame

\* the master is back
MasterUp ==
    /\ ~reachable
    /\ reachable' = TRUE
    /\ UNCHANGED <<dpc, attempts, interval, connected, dstream, dech, dpend, closed,
                   cancelled, nBreaks, nSent>>
    /\ DispatchFrame

\* the client is closed: done is closed
ClientClose ==
    /\ ~closed
    /\ closed' = TRUE
    /\ UNCHANGED <<dpc, attempts, interval, connected, dstream, dech, dpend, cancelled,
                   reachable, nBreaks, nSent>>
    /\ DispatchFrame

\* the dispatcher's context ends, and with it the stream opened under it
ContextEnd ==
    /\ ~cancelled
    /\ cancelled' = TRUE
    /\ dstream' = "broken"
    /\ UNCHANGED <<dpc, attempts, interval, connected, dech, dpend, closed, reachable,
                   nBreaks, nSent>>
    /\ DispatchFrame

\* a step of the goroutine process
Process ==
    \/ ProcessTimer
    \/ ProcessTimerDone
    \/ ProcessConnected
    \/ ProcessReconnect
    \/ \E u \in BOOLEAN : ProcessReconnectFail(u)
    \/ ProcessReturn
    \/ ProcessDefault
    \/ ProcessRecvCall
    \/ \E u \in BOOLEAN : ProcessRecvError(u)
    \/ ProcessNotify

(***************************************************************************)
(* The embed server (pkg/server/server.go): the callers of GoAttach, the   *)
(* goroutine started by Destroy(fn), the callers of Shutdown.              *)
(***************************************************************************)
Attachers == {"g1", "g2"}
Shutters == {"s1", "s2"}

\* the state NewEmbedServer leaves
InitServer ==
    /\ stop = FALSE
    /\ stopping = FALSE
    /\ stopped = FALSE
    /\ wg = 0
    /\ wgMu = {}
    /\ destroyPc = "none"
    /\ fnRuns = 0
    /\ attachPc = [g \in Attachers |-> "idle"]
    /\ shutPc = [c \in Shutters |-> "idle"]
    /\ shutCtx = [c \in Shutters |-> FALSE]

ServerFrame == UNCHANGED <<storeVars, schedVars, streamVars, callVars, held, opr, conc,
                           parse, app, dispVars, lockVars>>

\* GoAttach: s.wgMu.RLock()
GoAttachRLock(g) ==
    /\ attachPc[g] = "idle"
    /\ "destroy" \notin wgMu
    /\ wgMu' = wgMu \cup {g}
    /\ attachPc' = [attachPc EXCEPT ![g] = "select"]
    /\ UNCHANGED <<stop, stopping, stopped, wg, destroyPc, fnRuns, shutPc, shutCtx>>
    /\ ServerFrame

\* GoAttach: the select on stopping, and RUnlock on either branch
GoAttachSelect(g) ==
    /\ attachPc[g] = "select"
    /\ wgMu' = wgMu \ {g}
    /\ attachPc' = [attachPc EXCEPT ![g] = IF stopping THEN "skipped" ELSE "add"]
    /\ UNCHANGED <<stop, stopping, stopped, wg, destroyPc, fnRuns, shutPc, shutCtx>>
    /\ ServerFrame

\* GoAttach: s.wg.Add(1) and the goroutine that runs the function
GoAttachAdd(g) ==
    /\ attachPc[g] = "add"
    /\ wg' = wg + 1
    /\ attachPc' = [attachPc EXCEPT ![g] = "running"]
    /\ UNCHANGED <<stop, stopping, stopped, wgMu, destroyPc, fnRuns, shutPc, shutCtx>>
    /\ ServerFrame

\* the attached function returns: defer s.wg.Done()
GoAttachDone(g) ==
    /\ attachPc[g] = "running"
    /\ wg' = wg - 1
    /\ attachPc' = [attachPc EXCEPT ![g] = "finished"]
    /\ UNCHANGED <<stop, stopping, stopped, wgMu, destroyPc, fnRuns, shutPc, shutCtx>>
    /\ ServerFrame

\* Destroy(fn): go s.destroy(fn)
Destroy ==
    /\ destroyPc = "none"
    /\ destroyPc' = "stop"
    /\ UNCHANGED <<stop, stopping, stopped, wg, wgMu, fnRuns, attachPc, shutPc, shutCtx>>
    /\ ServerFrame

\* destroy: <-s.stop
DestroyStop ==
    /\ destroyPc = "stop"
    /\ stop
    /\ destroyPc' = "lock"
    /\ UNCHANGED <<stop, stopping, stopped, wg, wgMu, fnRuns, attachPc, shutPc, shutCtx>>
    /\ ServerFrame

\* destroy: s.wgMu.Lock()
DestroyLock ==
    /\ destroyPc = "lock"
    /\ wgMu = {}
    /\ wgMu' = {"destroy"}
    /\ destroyPc' = "close"
    /\ UNCHANGED <<stop, stopping, stopped, wg, fnRuns, attachPc, shutPc, shutCtx>>
    /\ ServerFrame

\* destroy: close(s.stopping); s.wgMu.Unlock()
DestroyClose ==
    /\ destroyPc = "close"
    /\ stopping' = TRUE
    /\ wgMu' = {}
    /\ destroyPc' = "wait"
    /\ UNCHANGED <<stop, stopped, wg, fnRuns, attachPc, shutPc, shutCtx>>
    /\ ServerFrame

\* destroy: s.wg.Wait() returns
DestroyWait ==
    /\ destroyPc = "wait"
    /\ wg = 0
    /\ destroyPc' = "fn"
    /\ UNCHANGED <<stop, stopping, stopped, wg, wgMu, fnRuns, attachPc, shutPc, shutCtx>>
    /\ ServerFrame

\* destroy: fn()
DestroyFn ==
    /\ destroyPc = "fn"
    /\ fnRuns' = fnRuns + 1
    /\ destroyPc' = "done"
    /\ UNCHANGED <<stop, stopping, stopped, wg, wgMu, attachPc, shutPc, shutCtx>>
    /\ ServerFrame

\* destroy: close(s.done)
DestroyDone ==
    /\ destroyPc = "done"
    /\ stopped' = TRUE
    /\ destroyPc' = "end"
    /\ UNCHANGED <<stop, stopping, wg, wgMu, fnRuns, attachPc, shutPc, shutCtx>>
    /\ ServerFrame

\* Shutdown is called
Shutdown(c) ==
    /\ shutPc[c] = "idle"
    /\ shutPc' = [shutPc EXCEPT ![c] = "first"]
    /\ UNCHANGED <<stop, stopping, stopped, wg, wgMu, destroyPc, fnRuns, attachPc, shutCtx>>
    /\ ServerFrame

\* Shutdown, either select: case <-ctx.Done()
ShutdownCtxDone(c) ==
    /\ shutPc[c] \in {"first", "second"}
    /\ shutCtx[c]
    /\ shutPc' = [shutPc EXCEPT ![c] = "err"]
    /\ UNCHANGED <<stop, stopping, stopped, wg, wgMu, destroyPc, fnRuns, attachPc, shutCtx>>
    /\ ServerFrame

\* Shutdown, the first select: case <-s.stop
ShutdownStopClosed(c) ==
    /\ shutPc[c] = "first"
    /\ stop
    /\ shutPc' = [shutPc EXCEPT ![c] = "second"]
    /\ UNCHANGED <<stop, stopping, stopped, wg, wgMu, destroyPc, fnRuns, attachPc, shutCtx>>
    /\ ServerFrame

\* Shutdown, either select: case <-s.done
ShutdownStopped(c) ==
    /\ shutPc[c] \in {"first", "second"}
    /\ stopped
    /\ shutPc' = [shutPc EXCEPT ![c] = "nil"]
    /\ UNCHANGED <<stop, stopping, stopped, wg, wgMu, destroyPc, fnRuns, attachPc, shutCtx>>
    /\ ServerFrame

\* Shutdown, the first select: default, close(s.stop)
ShutdownClose(c) ==
    /\ shutPc[c] = "first"
    /\ ~shutCtx[c] /\ ~stop /\ ~stopped
    /\ stop' = TRUE
    /\ shutPc' = [shutPc EXCEPT ![c] = "second"]
    /\ UNCHANGED <<stopping, stopped, wg, wgMu, destroyPc, fnRuns, attachPc, shutCtx>>
    /\ ServerFrame

\* the context given to a Shutdown ends
ShutdownCtxEnd(c) ==
    /\ ~shutCtx[c]
    /\ shutCtx' = [shutCtx EXCEPT ![c] = TRUE]
    /\ UNCHANGED <<stop, stopping, stopped, wg, wgMu, destroyPc, fnRuns, attachPc, shutPc>>
    /\ ServerFrame

(***************************************************************************)
(* The system.                                                             *)
(***************************************************************************)
\* the counter values newIDAllocator may draw
Seeds == {IdMod - 1}

Init ==
    /\ stateFile \in [Names -> InitStates]
    /\ links = [st \in MinionStates |-> {n \in Names : stateFile[n] = st}]
    /\ minionCache = [st \in MinionStates |-> WalkMinions(links, st)]
    /\ rootDir = {n \in Names : stateFile[n] # NoState}
    /\ pubs = <<>>
    /\ cmuHeld = NoEvent
    /\ ech = <<>>
    /\ nOps = 0
    /\ pipes = [n \in Names |-> NoPipe]
    /\ minions = {}
    /\ idNext \in Seeds
    /\ idUsed = {}
    /\ taskStore = [i \in Ids |-> NoTask]
    /\ mch = <<>>
    /\ runPc = "select"
    /\ runPack = NoPack
    /\ spc = [s \in Streams |-> "idle"]
    /\ sname = [s \in Streams |-> ""]
    /\ sstate = [s \in Streams |-> NoState]
    /\ inbox = [s \in Streams |-> <<>>]
    /\ cpc = [c \in Callers |-> "idle"]
    /\ cid = [c \in Callers |-> 0]
    /\ csel = [c \in Callers |-> EmptySel]
    /\ csent = [c \in Callers |-> 0]
    /\ cret = [c \in Callers |-> NoRet]
    /\ nCalls = 0
    /\ held = [h \in Holders |-> 0]
    /\ opr = [t \in Threads |-> IdleOp("none")]
    /\ conc = FALSE
    /\ parse = ParseIdle
    /\ app = NoApp
    /\ InitDispatcher
    /\ InitServer
    /\ InitCmu

Next ==
    \/ \E n \in Names, r, d \in BOOLEAN : AcceptMinion(n, r, d)
    \/ \E n \in Names, a, d \in BOOLEAN : RejectMinion(n, a, d)
    \/ \E n \in Names : DeleteMinion(n)
    \/ PublishLock
    \/ PublishSend
    \/ RunMsg
    \/ RunNotify
    \/ RunEvent
    \/ \E s \in Streams, n \in Names : AddStreamCheck(s, n)
    \/ \E s \in Streams : AddStreamAttach(s)
    \/ \E s \in Streams, k \in ReplyKinds : PipeReply(s, k)
    \/ \E s \in Streams : PipeDone(s)
    \/ \E c \in Callers, o \in CallOptions, ord \in Orders(minions) : CallStart(c, o, ord)
    \/ \E c \in Callers : CallInsert(c)
    \/ \E c \in Callers : CallSend(c)
    \/ \E c \in Callers : CallExecute(c)
    \/ \E c \in Callers : CallTimeout(c)
    \/ \E c \in Callers : CallDelete(c)

Spec == Init /\ [][Next]_vars

\* the id allocator under concurrent Get and Free
NextIds ==
    \/ \E h \in Holders : IdGet(h)
    \/ \E h \in Holders : IdFree(h)

SpecIds == Init /\ [][NextIds]_vars

\* the trust store on its own: operations on one name from two threads,
\* with the publisher and the scheduler's event loop draining the events
NextStore ==
    \/ \E t \in Threads, n \in OpNames, autoSign \in BOOLEAN, autoDenied \in BOOLEAN :
          AddMinionBegin(t, n, autoSign, autoDenied)
    \/ \E t \in Threads : AddMinionLink(t)
    \/ \E t \in Threads : AddMinionSetUpdate(t)
    \/ \E t \in Threads : AddMinionCache(t)
    \/ \E t \in Threads, n \in OpNames, r \in BOOLEAN, d \in BOOLEAN :
          AcceptMinionBegin(t, n, r, d)
    \/ \E t \in Threads, n \in OpNames, a \in BOOLEAN, d \in BOOLEAN :
          RejectMinionBegin(t, n, a, d)
    \/ \E t \in Threads : TargetSetAdd(t)
    \/ \E t \in Threads : TargetLink(t)
    \/ \E t \in Threads : SourceUnlink(t)
    \/ \E t \in Threads : TargetFinish(t)
    \/ \E t \in Threads, n \in OpNames : DeleteMinionBegin(t, n)
    \/ \E t \in Threads : DeleteMinionCache(t)
    \/ \E t \in Threads : DeleteMinionUnlink(t)
    \/ \E t \in Threads : DeleteMinionRemove(t)
    \/ PublishLock
    \/ PublishSend
    \/ RunEvent

\* ParseSelection and MatchTarget on their own, one text per behaviour
NextParse ==
    \/ \E text \in ParseTexts : ParseSelectionBegin(text)
    \/ ParseSelectionLoop
    \/ MatchTargets

InitParse == Init /\ \A n \in Names : stateFile[n] = NoState

SpecParse == InitParse /\ [][NextParse]_vars

\* the pure functions, each called once on one of its inputs
NextPure ==
    \/ \E sels \in MatchExprs, target \in MatchedTargets : CallMatchTarget(sels, target)
    \/ \E o \in BuiltOptions : CallRoundTrip(o)
    \/ \E sels \in ValidateInputs : CallValidate(sels)
    \/ \E p \in Payloads, r \in PadBytes : CallRSA(p, r)
    \/ \E sels \in MatchExprs, t \in MatchedTargets : CallMatchBoth(sels, t)

SpecPure == InitParse /\ [][NextPure]_vars

\* the store starts with only the operated name unknown or accepted
\* the scheduler with minions that are accepted from the start, each on a
\* stream of its own that stays up, and that answer with well-formed frames,
\* for any call id
StreamName == [s \in Streams |-> IF s = "s1" THEN "m1" ELSE "m2"]

InitReplies == Init /\ \A n \in Names : stateFile[n] = Accepted

NextReplies ==
    \/ RunMsg
    \/ RunNotify
    \/ \E s \in Streams : AddStreamCheck(s, StreamName[s])
    \/ \E s \in Streams : AddStreamAttach(s)
    \/ \E s \in Streams : PipeReply(s, "ok")
    \/ \E s \in Streams, id \in Ids : PipeFrame(s, id, "ok")
    \/ \E c \in Callers, o \in CallOptions, ord \in Orders(minions) : CallStart(c, o, ord)
    \/ \E c \in Callers : CallInsert(c)
    \/ \E c \in Callers : CallSend(c)
    \/ \E c \in Callers : CallExecute(c)
    \/ \E c \in Callers : CallTimeout(c)
    \/ \E c \in Callers : CallDelete(c)

SpecReplies == InitReplies /\ [][NextReplies]_vars

\* the scheduler with Dispatch taken step by step
NextAttach ==
    \/ RunMsg
    \/ RunNotify
    \/ \E s \in Streams : AddStreamCheck(s, StreamName[s])
    \/ \E s \in Streams : DispatchAddStream(s)
    \/ \E s \in Streams : DispatchReply(s)
    \/ \E s \in Streams : PipeReply(s, "ok")
    \/ \E s \in Streams : PipeDone(s)
    \/ \E c \in Callers, o \in CallOptions, ord \in Orders(minions) : CallStart(c, o, ord)
    \/ \E c \in Callers : CallInsert(c)
    \/ \E c \in Callers : CallSend(c)
    \/ \E c \in Callers : CallExecute(c)
    \/ \E c \in Callers : CallTimeout(c)
    \/ \E c \in Callers : CallDelete(c)

SpecAttach == InitReplies /\ [][NextAttach]_vars

\* the minion's dispatcher with the master and the client around it
NextDispatch ==
    \/ ProcessTimer
    \/ ProcessTimerDone
    \/ ProcessConnected
    \/ ProcessReconnect
    \/ \E u \in BOOLEAN : ProcessReconnectFail(u)
    \/ ProcessReturn
    \/ ProcessDefault
    \/ ProcessRecvCall
    \/ \E u \in BOOLEAN : ProcessRecvError(u)
    \/ ProcessNotify
    \/ DispatcherRecv
    \/ MasterDown
    \/ MasterUp
    \/ ClientClose
    \/ ContextEnd

\* the goroutine process runs whenever it can, the consumer takes the events,
\* and a master that went away comes back
SpecDispatch ==
    /\ InitParse
    /\ [][NextDispatch]_vars
    /\ WF_vars(Process)
    /\ WF_vars(DispatcherRecv)
    /\ WF_vars(MasterUp)

\* the embed server with its callers
NextServer ==
    \/ \E g \in Attachers : GoAttachRLock(g)
    \/ \E g \in Attachers : GoAttachSelect(g)
    \/ \E g \in Attachers : GoAttachAdd(g)
    \/ \E g \in Attachers : GoAttachDone(g)
    \/ Destroy
    \/ DestroyStop
    \/ DestroyLock
    \/ DestroyClose
    \/ DestroyWait
    \/ DestroyFn
    \/ DestroyDone
    \/ \E c \in Shutters : Shutdown(c)
    \/ \E c \in Shutters : ShutdownCtxDone(c)
    \/ \E c \in Shutters : ShutdownStopClosed(c)
    \/ \E c \in Shutters : ShutdownStopped(c)
    \/ \E c \in Shutters : ShutdownClose(c)
    \/ \E c \in Shutters : ShutdownCtxEnd(c)

SpecServer == InitParse /\ [][NextServer]_vars

InitStore == Init /\ \A n \in Names \ OpNames : stateFile[n] = NoState

SpecStore == InitStore /\ [][NextStore]_vars

\* AcceptMinion, RejectMinion and GetMinions from two threads with cmu as a
\* reader/writer lock and every access to a set as a step
NextLock ==
    \/ \E t \in Threads, n \in OpNames, r \in BOOLEAN, d \in BOOLEAN :
          AcceptMinionRLock(t, n, r, d)
    \/ \E t \in Threads, n \in OpNames, a \in BOOLEAN, d \in BOOLEAN :
          RejectMinionLock(t, n, a, d)
    \/ \E t \in Threads, st \in {Accepted, Rejected} : GetMinionsLock(t, st)
    \/ \E t \in Threads : ProbeBegin(t)
    \/ \E t \in Threads : ProbeEnd(t)
    \/ \E t \in Threads : SourceRemoveBegin(t)
    \/ \E t \in Threads : SourceRemoveEnd(t)
    \/ \E t \in Threads : SectionUnlock(t)
    \/ \E t \in Threads : TargetLock(t)
    \/ \E t \in Threads : TargetAddBegin(t)
    \/ \E t \in Threads : TargetAddEnd(t)
    \/ \E t \in Threads : TargetUnlock(t)
    \/ \E t \in Threads : TargetLink(t)
    \/ \E t \in Threads : SourceUnlink(t)
    \/ \E t \in Threads : TargetFinish(t)
    \/ \E t \in Threads : MapFatal(t)
    \/ PublishLock
    \/ PublishSend
    \/ RunEvent

SpecLock == InitStore /\ [][NextLock]_vars

(***************************************************************************)
(* The AcceptMinion and RejectMinion RPCs (internal/master/handler.go),    *)
(* each call as one step over the store.                                   *)
(***************************************************************************)
MaxRpcs == 2

\* the store as a value: the sets, the links, the state files and the events
\* published so far by the call
StoreNow == [cache |-> minionCache, links |-> links, sf |-> stateFile, evs |-> <<>>]

\* Storage.AcceptMinion / Storage.RejectMinion on a store value: the store
\* after the call and the error returned
StorageMove(st, op, name, f1, f2) ==
    LET src == IF op = "accept" THEN AcceptSource(st.cache, name, f1, f2)
               ELSE RejectSource(st.cache, name, f1, f2)
        target == TargetState(op)
        cache1 == [st.cache EXCEPT ![src] = @ \ {name}]
        cache2 == [cache1 EXCEPT ![target] = @ \cup {name}]
    IN  IF src = NoState
        THEN [st |-> st, err |-> "not found"]
        ELSE IF st.sf[name] = NoState \/ name \in st.links[target]
        THEN [st |-> [st EXCEPT !.cache = cache2], err |-> "error"]
        ELSE [st |-> [cache |-> cache2,
                      links |-> MoveLink(st.links, name, st.sf[name], target),
                      sf |-> [st.sf EXCEPT ![name] = target],
                      evs |-> Append(st.evs, MinionEvent(name, target, FALSE))],
              err |-> "ok"]

\* a variant of MoveEach that returns every name of the list
RECURSIVE MoveEachListed(_, _, _, _, _, _, _)
MoveEachListed(st, op, list, f1, f2, all, targets) ==
    IF list = <<>> THEN [st |-> st, targets |-> targets, err |-> "ok"]
    ELSE LET r == StorageMove(st, op, Head(list), f1, f2)
         IN  MoveEachListed(r.st, op, Tail(list), f1, f2, all, Append(targets, Head(list)))

\* the loop of the handler over the names: with all the failures are logged
\* and the names that moved are appended to targets; with an explicit list
\* the first failure ends the call
RECURSIVE MoveEach(_, _, _, _, _, _, _)
MoveEach(st, op, list, f1, f2, all, targets) ==
    IF list = <<>> THEN [st |-> st, targets |-> targets, err |-> "ok"]
    ELSE LET r == StorageMove(st, op, Head(list), f1, f2)
         IN  IF r.err # "ok"
             THEN IF all THEN MoveEach(r.st, op, Tail(list), f1, f2, all, targets)
                  ELSE [st |-> r.st, targets |-> <<>>, err |-> r.err]
             ELSE MoveEach(r.st, op, Tail(list), f1, f2, all, Append(targets, Head(list)))

\* macoHandler.AcceptMinion / macoHandler.RejectMinion: with all the names
\* are those of GetMinions(Unaccepted), and targets starts with the values of
\* GetMinions for each include flag; the lists of GetMinions come in any order
RpcMinion(op, all, reqMinions, f1, f2) ==
    /\ nOps < MaxRpcs
    /\ cmuHeld = NoEvent
    /\ pubs = <<>>
    /\ \E unacc \in Orders(minionCache[Unaccepted]),
          first \in Orders(minionCache[IF op = "accept" THEN Rejected ELSE Accepted]),
          denied \in Orders(minionCache[Denied]) :
          LET pre1 == IF f1 THEN first ELSE <<>>
              pre2 == IF f2 THEN denied ELSE <<>>
              r == IF all
                   THEN MoveEach(StoreNow, op, unacc, f1, f2, TRUE, pre1 \o pre2)
                   ELSE IF reqMinions = <<>>
                   THEN [st |-> StoreNow, targets |-> <<>>, err |-> "bad request"]
                   ELSE MoveEach(StoreNow, op, reqMinions, f1, f2, FALSE, <<>>)
          IN  /\ minionCache' = r.st.cache
              /\ links' = r.st.links
              /\ stateFile' = r.st.sf
              /\ pubs' = r.st.evs
              /\ app' = Applied(op, [all |-> all, minions |-> reqMinions, f1 |-> f1, f2 |-> f2],
                                [targets |-> r.targets, err |-> r.err])
    /\ nOps' = nOps + 1
    /\ UNCHANGED <<rootDir, cmuHeld, ech, schedVars, streamVars, callVars>>
    /\ UNCHANGED <<held, opr, conc, parse, dispVars, srvVars, lockVars>>

AcceptMinionRPC(all, reqMinions, includeRejected, includeDenied) ==
    /\ RpcMinion("accept", all, reqMinions, includeRejected, includeDenied)

RejectMinionRPC(all, reqMinions, includeAccepted, includeDenied) ==
    /\ RpcMinion("reject", all, reqMinions, includeAccepted, includeDenied)

\* the explicit name lists of a request
RpcLists == {<<>>} \cup {o : o \in UNION {Orders(S) : S \in SUBSET Names \ {{}}}}

\* the two RPCs one after the other, with the publisher and the scheduler's
\* event loop
NextRpc ==
    \/ \E all \in BOOLEAN, l \in RpcLists, r \in BOOLEAN, d \in BOOLEAN :
          AcceptMinionRPC(all, l, r, d)
    \/ \E all \in BOOLEAN, l \in RpcLists, a \in BOOLEAN, d \in BOOLEAN :
          RejectMinionRPC(all, l, a, d)
    \/ PublishLock
    \/ PublishSend
    \/ RunEvent

SpecRpc == Init /\ [][NextRpc]_vars

(***************************************************************************)
(* Properties.                                                             *)
(***************************************************************************)
Eligible == {Accepted, AutoSign}

\* the step in which HandleCall of caller c selects its pipes
Selects(c) == cpc[c] = "idle" /\ cpc'[c] = "insert"

\* C1 (eligibility gate): every name a HandleCall selects is in the
\* eligible-minion map when selectPipe runs, its pipe is the one the table
\* holds, and its trust state is Accepted or AutoSign; a minion in any other
\* state is never selected.
EligibilityGate_C1 ==
    [][\A c \in Callers :
          Selects(c) =>
             \A i \in DOMAIN csel'[c].names :
                LET n == csel'[c].names[i]
                IN  /\ n \in minions
                    /\ csel'[c].pipes[i] = pipes[n]
                    /\ stateFile[n] \in Eligible]_vars

\* C2 (report completeness): a report HandleCall returns has as many items
\* as summary.total says, and every selected name is the minion of exactly
\* one item, whatever the selection expression was.
ReportComplete_C2 ==
    \A c \in Callers :
       cret[c].rsp =>
          /\ Len(cret[c].items) = cret[c].total
          /\ \A n \in Range(cret[c].names) :
                Cardinality({i \in DOMAIN cret[c].items : cret[c].items[i].minion = n}) = 1

\* C3 (one stream per name): at any moment at most one pipe receive loop
\* is running for a minion name.
OneLoopPerName_C3 ==
    \A n \in Names : Cardinality({s \in Streams : spc[s] = "running" /\ sname[s] = n}) <= 1

\* C4 (duplicate attach): an AddStream that starts while the pipe table holds
\* a pipe of the same name fails with "already exists"; the trust store, the
\* pipe table, the eligible map, every other stream and everything queued on
\* the pipes are left as they were.
DuplicateAttach_C4 ==
    [][\A s \in Streams :
          (spc[s] = "idle" /\ spc'[s] # "idle" /\ pipes[sname'[s]] # NoPipe) =>
             /\ spc'[s] = "rejected"
             /\ \A t \in Streams \ {s} : spc'[t] = spc[t] /\ sname'[t] = sname[t]
             /\ UNCHANGED <<stateFile, minionCache, links, rootDir, pubs, cmuHeld, ech>>
             /\ UNCHANGED <<pipes, minions, inbox, mch, taskStore>>]_vars

\* C4 witness: a second stream of a name was turned away, and the first
\* pipe of that name is still in the table, running, and answered a call
\* whose report came back
DuplicateAttachSeen_C4 ==
    \E s, t \in Streams, c \in Callers :
       /\ s # t
       /\ spc[t] = "rejected"
       /\ sname[t] = sname[s]
       /\ spc[s] = "running"
       /\ pipes[sname[s]] = s
       /\ cret[c].rsp
       /\ sname[s] \in cret[c].got

\* C5 (task removal): the task table only holds tasks of calls that are
\* still in flight; once HandleCall has returned, with a report or with the
\* deadline error, its task is gone.
TaskRemoved_C5 ==
    \A id \in Ids :
       taskStore[id] # NoTask =>
          \E c \in Callers : cpc[c] \in {"send", "execute", "delete"} /\ cid[c] = id

\* C6 (event loop): Run is never held in a notify that no HandleCall will
\* complete: whenever it waits to hand a pack to a task, the call of that
\* task is still taking packs, so Run gets back to its select.
RunReturns_C6 ==
    runPc = "notify" =>
       \E c \in Callers : cpc[c] = "execute" /\ cid[c] = runPack.id

ConfinedFailure_C8 ==
    \A c \in Callers :
       (Len(cret[c].names) >= 2 /\ Cardinality(Range(cret[c].names)) = Len(cret[c].names)) =>
          /\ cret[c].rsp =>
                \A i \in DOMAIN cret[c].items :
                   cret[c].items[i].error # "" => ~cret[c].items[i].result
          /\ ~(/\ cret[c].err = "deadline"
               /\ cret[c].failed = 1
               /\ cret[c].gets = cret[c].total - 1)

\* C9 (register then accept, first half): a call whose host list names a
\* minion that has a pipe in the table and is not accepted goes on to a
\* report that holds a "not accepted" item with result=false for it.
NotAcceptedItem_C9 ==
    [][\A c \in Callers, o \in CallOptions, ord \in Orders(minions) :
          (CallStart(c, o, ord) /\ Len(o) = 1 /\ o[1].kind = "hosts") =>
             \A h \in Range(o[1].arg) \cap Names :
                (pipes[h] # NoPipe /\ stateFile[h] \notin Eligible) =>
                   /\ cret'[c].err # "bad request"
                   /\ \E i \in DOMAIN csel'[c].items :
                         csel'[c].items[i] = ErrorItem(h, "not accepted")]_vars

\* the names an expression can reach: in the eligible map, with a pipe in
\* the table, and named or matched by the expression
LiveTargets(opts) ==
    LET live == {n \in minions : pipes[n] # NoPipe}
    IN  IF Len(opts) = 1
        THEN IF opts[1].kind # "hosts" THEN {}
             ELSE IF opts[1].arg = <<"*">> THEN live
             ELSE live \cap Range(opts[1].arg)
        ELSE {n \in live : MatchTarget(opts, Node(n), TRUE)[1] \/ ~MatchTarget(opts, Node(n), TRUE)[2]}

\* C10 (no live target): a HandleCall whose expression reaches no live
\* target fails with a bad request; nothing is put on any pipe, the task
\* table is as before, and the id it allocated is free again.
NoLiveTarget_C10 ==
    [][\A c \in Callers, o \in CallOptions, ord \in Orders(minions) :
          (CallStart(c, o, ord) /\ LiveTargets(o) = {}) =>
             /\ cret'[c].err = "bad request"
             /\ ~cret'[c].rsp
             /\ cpc'[c] = "idle"
             /\ inbox' = inbox
             /\ taskStore' = taskStore
             /\ cret'[c].id \in Ids
             /\ cret'[c].id \notin idUsed']_vars

\* C10 witness: a call failed with a bad request while a pipe was attached,
\* and left the task table and the id allocator empty
NoLiveTargetSeen_C10 ==
    \E c \in Callers, n \in Names :
       /\ cret[c].err = "bad request"
       /\ pipes[n] # NoPipe
       /\ idUsed = {}
       /\ \A id \in Ids : taskStore[id] = NoTask

\* every published trust event was consumed by Run and no AddStream is
\* between its exists check and its return
Settled ==
    /\ pubs = <<>>
    /\ cmuHeld = NoEvent
    /\ ech = <<>>
    /\ \A s \in Streams : spc[s] # "adding"

\* a pipe of the name is in the table and its receive loop is running
LivePipe(n) == pipes[n] # NoPipe /\ spc[pipes[n]] = "running" /\ sname[pipes[n]] = n

\* C11 (eligibility follows the trust state): once every trust event is
\* consumed and no AddStream is in progress, a name with a live pipe is in
\* the eligible map exactly when its trust-store state is Accepted or
\* AutoSign.
EligibleIffTrusted_C11 ==
    Settled =>
       \A n \in Names : LivePipe(n) => (n \in minions <=> stateFile[n] \in Eligible)

\* C12 (response delivery): a response that an attached pipe receives for a
\* call id whose task is in the task table is queued as a message for that
\* id and name that Run hands on, and Run hands every such message to the
\* task of that id and to no other task: it is neither dropped nor
\* misdirected.
ResponseDelivered_C12 ==
    [][/\ \A s \in Streams, k \in ReplyKinds :
             (/\ PipeReply(s, k)
              /\ pipes[sname[s]] = s
              /\ taskStore[Head(inbox[s])] # NoTask) =>
                LET m == mch'[Len(mch')]
                IN  ~m.done /\ m.id = Head(inbox[s]) /\ m.name = sname[s]
       /\ (RunMsg /\ ~Head(mch).done /\ taskStore[Head(mch).id] # NoTask) =>
             LET m == Head(mch)
                 pack == [name |-> m.name, call |-> EffectiveCall(m)]
             IN  /\ \/ taskStore'[m.id].ch = Append(taskStore[m.id].ch, pack)
                    \/ runPc' = "notify" /\ runPack' = [id |-> m.id, pack |-> pack]
                 /\ \A id \in Ids \ {m.id} : taskStore'[id] = taskStore[id]]_vars

\* C13 (id freshness): the id a Get returns is in [1, 2^IdBits), was not in
\* the live set when Get ran, and is held by no other goroutine, for every
\* interleaving of Get and Free and across the wrap of the masked counter.
IdFresh_C13 ==
    [][\A h \in Holders :
          (held[h] = 0 /\ held'[h] # 0) =>
             /\ held'[h] \in 1 .. (IdMod - 1)
             /\ held'[h] \notin idUsed
             /\ \A g \in Holders \ {h} : held'[g] # held'[h]]_vars

\* C13 witness: after the counter has wrapped, two ids are live and the
\* counter points at a live id, so the next Get has to skip it
IdFreshSeen_C13 ==
    /\ Cardinality({h \in Holders : held[h] # 0}) = 2
    /\ idNext \in idUsed
    /\ \E h \in Holders : held[h] # 0 /\ held[h] < idNext

\* the callers whose HandleCall has not returned
InFlight == {c \in Callers : cpc[c] # "idle"}

\* C14 (id release): the allocator's live set is exactly the set of ids of
\* the calls in flight: each call in flight holds a live id of its own, so
\* the Free at its return is never a free of a non-live id, and every return
\* path (no options, no target, deadline, success) leaves its id released;
\* with no call in flight the live set is empty.
IdsReleased_C14 ==
    /\ idUsed = {cid[c] : c \in InFlight}
    /\ \A c \in InFlight : cid[c] \in Ids
    /\ \A c \in Callers \ InFlight : cret[c].err # "none" => cret[c].id \notin idUsed

\* C14 witness: a call returned by its deadline; its task is still in the
\* table and its id is free again
IdsReleasedSeen_C14 ==
    \E c \in Callers :
       /\ cret[c].err = "deadline"
       /\ taskStore[cret[c].id] # NoTask
       /\ InFlight = {}
       /\ idUsed = {}

\* ---- C15 ----
\* the states an accept (a reject) request with its two flags may start from
AcceptFrom(r, d) ==
    {Unaccepted} \cup (IF r THEN {Rejected} ELSE {}) \cup (IF d THEN {Denied} ELSE {})

RejectFrom(a, d) ==
    {Unaccepted} \cup (IF a THEN {Accepted, AutoSign} ELSE {}) \cup (IF d THEN {Denied} ELSE {})

\* the step is made by an operation that may move name from state from to state to
TrustEdge(o, name, from, to) ==
    /\ o.name = name
    /\ \/ o.op = "add" /\ from = NoState /\ to \in {Unaccepted, AutoSign, Denied}
       \/ o.op = "accept" /\ from \in AcceptFrom(o.f1, o.f2) /\ to = Accepted
       \/ o.op = "reject" /\ from \in RejectFrom(o.f1, o.f2) /\ to = Rejected
       \/ o.op = "delete" /\ to = NoState

\* C15: with the operations issued one after another, the state of a minion
\* changes only along the edges of the trust state machine (none to
\* Unaccepted/AutoSign/Denied at first contact; Unaccepted, flagged Rejected
\* or Denied to Accepted; Unaccepted, flagged Accepted/AutoSign or Denied to
\* Rejected; anything to none on delete); AddMinion of a known minion changes
\* no state; an accept or reject from any other state returns "not found",
\* changes no set and no file and publishes no event
TrustEdges_C15 ==
    [][~conc' =>
         /\ \A n \in Names :
               stateFile'[n] # stateFile[n] =>
                  \E t \in Threads : TrustEdge(opr[t], n, stateFile[n], stateFile'[n])
         /\ \A t \in Threads, n \in OpNames, f1 \in BOOLEAN, f2 \in BOOLEAN :
               /\ (AddMinionBegin(t, n, f1, f2) /\ stateFile[n] # NoState) =>
                     /\ opr'[t] = IdleOp("ok")
                     /\ UNCHANGED <<stateFile, minionCache, links, pubs>>
               /\ (AcceptMinionBegin(t, n, f1, f2) /\ stateFile[n] \notin AcceptFrom(f1, f2)) =>
                     /\ opr'[t] = IdleOp("not found")
                     /\ UNCHANGED <<stateFile, minionCache, links, rootDir, pubs>>
               /\ (RejectMinionBegin(t, n, f1, f2) /\ stateFile[n] \notin RejectFrom(f1, f2)) =>
                     /\ opr'[t] = IdleOp("not found")
                     /\ UNCHANGED <<stateFile, minionCache, links, rootDir, pubs>>]_vars

\* an accepted minion was rejected with the flag, and an accept without the
\* flag was then refused
TrustEdgesSeen_C15 ==
    /\ ~conc
    /\ stateFile["m1"] = Rejected
    /\ "m1" \in minionCache[Rejected]
    /\ opr[FirstThread] = IdleOp("not found")

\* ---- C16 ----
\* the state the first contact is said to record for the two flags
FirstContactState(autoSign, autoDenied) ==
    IF autoSign THEN AutoSign ELSE IF autoDenied THEN Denied ELSE Unaccepted

\* C16: when AddMinion of an unknown name completes, the state it recorded is
\* AutoSign when auto_sign was set, otherwise Denied when auto_denied was
\* set, otherwise Unaccepted, and the bucket symlink, the state file and the
\* in-memory set all record that state
FirstContact_C16 ==
    [][\A t \in Threads :
          (AddMinionCache(t) /\ ~conc') =>
             LET name == opr[t].name
                 state == FirstContactState(opr[t].f1, opr[t].f2)
             IN  /\ stateFile'[name] = state
                 /\ name \in links'[state]
                 /\ name \in minionCache'[state]]_vars

\* ---- C17 ----
\* the names the store knows: a state file exists and no AddMinion or
\* DeleteMinion of the name is under way
Known ==
    {n \in Names :
        /\ stateFile[n] # NoState
        /\ \A t \in Threads : ~(opr[t].name = n /\ opr[t].op \in {"add", "delete"})}

\* what GetMinions / ListMinions return when they take cmu in this state
GetMinions(state) == minionCache[state]

ListMinions == UNION {GetMinions(state) : state \in MinionStates}

\* C17: in every reachable state in which a reader can take cmu, every known
\* minion is a member of exactly one of the five in-memory per-state sets
ExactlyOneSet_C17 ==
    cmuHeld = NoEvent =>
       \A n \in Known : Cardinality({state \in MinionStates : n \in GetMinions(state)}) = 1

\* ---- C18 ----
\* the buckets that hold a symlink for the name
Buckets(n) == {state \in MinionStates : n \in links[state]}

\* every operation begun has returned
Completed == \A t \in Threads : opr[t].op = "idle"

\* C18: after every completed AddMinion, AcceptMinion or RejectMinion, issued
\* one after another or concurrently on one name, each known minion has
\* exactly one symlink across the five buckets, in the bucket named by its
\* state file
OneSymlink_C18 ==
    Completed =>
       \A n \in Names : stateFile[n] # NoState => Buckets(n) = {stateFile[n]}

\* ---- C19 ----
\* newStorage on the same directory: the per-state sets it builds
Reopened == [state \in MinionStates |-> WalkMinions(links, state)]

\* C19: after any sequence of create, accept, reject and delete operations
\* (issued one after another, each completed), a store re-opened from the
\* directory has per-state sets equal to the in-memory sets, and a name
\* without a state file (never created, or deleted) has no root directory
Durable_C19 ==
    (Completed /\ ~conc) =>
       /\ Reopened = minionCache
       /\ \A n \in Names : stateFile[n] = NoState => n \notin rootDir

\* four operations were issued one after another, the last one the delete
\* of the rejected m1
DurableSeen_C19 ==
    /\ Completed /\ ~conc
    /\ nOps >= 4
    /\ stateFile["m1"] = NoState
    /\ "m1" \notin rootDir
    /\ pubs = <<MinionEvent("m1", Rejected, TRUE)>>

\* ---- C20 ----
\* C20: ParseSelection turns the token "and" into a logical connective, so
\* that "G@os:linux and G@role:web", evaluated by MatchTarget over
\* m1{os=linux, role=web}, m2{os=linux, role=db} and m3{os=bsd, role=web},
\* matches only m1
CompoundSelection_C20 ==
    (parse.pc = "matched" /\ parse.text = TextAnd) =>
       /\ parse.selections = <<Grains("os", "linux"), LogicAnd, Grains("role", "web")>>
       /\ parse.matched = {"m1"}

\* ---- C21 ----
\* what a term says about a target on its own
TermResult(s, target) ==
    CASE s.kind = "hosts" -> \E i \in DOMAIN s.arg : s.arg[i] \in {"*", target.id}
      [] s.kind = "groups" -> Range(s.arg) \cap Range(target.groups) # {}
      [] s.kind = "grains" -> /\ s.arg[1] \in DOMAIN target.grains
                              /\ target.grains[s.arg[1]] = s.arg[2]
      [] OTHER -> FALSE

\* the left-to-right fold of the terms' results up to element n (n odd)
RECURSIVE LeftFold(_, _, _)
LeftFold(sels, target, n) ==
    IF n = 1 THEN TermResult(sels[1], target)
    ELSE LET left == LeftFold(sels, target, n - 2)
             right == TermResult(sels[n], target)
         IN  IF sels[n - 1] = LogicAnd THEN left /\ right ELSE left \/ right

\* C21: on a sequence of terms alternating with connectives MatchTarget
\* returns the left-to-right fold of the terms' results, "and" being
\* conjunction and "or" disjunction; the empty sequence does not match
LeftToRightFold_C21 ==
    app.fn = "MatchTarget" =>
       app.output = IF app.input.sels = <<>> THEN FALSE
                    ELSE LeftFold(app.input.sels, app.input.target, Len(app.input.sels))

\* ---- C22 ----
\* C22: for the options built with the option constructors, parsing the
\* text of the options and turning the result into text again gives the
\* text of the options
RoundTrip_C22 ==
    app.fn = "RoundTrip" => app.output = ToText(app.input)

\* ---- C23 ----
\* terms alternating with single connectives: a term first and last
AlternatingTerms(sels) ==
    /\ sels # <<>>
    /\ \A i \in DOMAIN sels : IsLogic(sels[i]) <=> i % 2 = 0
    /\ Len(sels) % 2 = 1
    /\ \A i \in DOMAIN sels : sels[i] # EmptySelection

\* the regular expressions of the terms compile and their CIDRs parse
WellFormedTerms(sels) ==
    \A i \in DOMAIN sels :
       /\ sels[i].kind = "hostpcre" => Compiles(Spell[sels[i].arg[1]])
       /\ sels[i].kind = "ipcidr" => ParsesRanges(sels[i].arg[1])

\* C23: Validate rejects options that are empty, that start with a
\* connective or that have two adjacent connectives, and accepts every
\* sequence of terms alternating with single connectives whose regular
\* expressions compile and whose CIDRs parse
ValidateAccepts_C23 ==
    app.fn = "Validate" =>
       LET sels == app.input
       IN  /\ (\/ sels = <<>>
               \/ (sels # <<>> /\ IsLogic(sels[1]))
               \/ \E i \in 1 .. (Len(sels) - 1) : IsLogic(sels[i]) /\ IsLogic(sels[i + 1]))
                 => app.output # "nil"
           /\ (AlternatingTerms(sels) /\ WellFormedTerms(sels)) => app.output = "nil"

\* ---- C24 ----
\* the minions of the report items that belong to the selected names
SelectedItems(items, names) ==
    LET OfSelected(it) == it.minion \in Range(names)
        sub == SelectSeq(items, OfSelected)
    IN  [i \in DOMAIN sub |-> sub[i].minion]

\* C24: in the report of every call, while responses arrive and when
\* HandleCall returns, the items of the selected minions are in the order in
\* which selectPipe placed them
SelectionOrder_C24 ==
    \A c \in Callers :
       /\ (cpc[c] # "idle" /\ taskStore[cid[c]] # NoTask) =>
             SelectedItems(taskStore[cid[c]].items, csel[c].names) = csel[c].names
       /\ cret[c].rsp => SelectedItems(cret[c].items, cret[c].names) = cret[c].names

\* two minions are selected and the second one's response is the first to
\* be written into the report
SelectionOrderSeen_C24 ==
    \E c \in Callers :
       /\ cpc[c] # "idle" /\ taskStore[cid[c]] # NoTask
       /\ Len(csel[c].names) = 2
       /\ csel[c].names[1] # csel[c].names[2]
       /\ taskStore[cid[c]].got = {csel[c].names[2]}
       /\ taskStore[cid[c]].items[2].result

\* ---- C25 ----
\* the number of chunks of a payload of n bytes
NumChunks(n) == (n + (KeySize - PadLen) - 1) \div (KeySize - PadLen)

\* C25: decoding the encoding of a payload returns the payload, the empty
\* one and those longer than keysize-11 bytes included; the ciphertext has
\* keysize bytes per chunk of at most keysize-11 payload bytes, and its
\* chunks decrypt to the successive pieces of the payload
ChunkedRoundTrip_C25 ==
    app.fn = "RSA" =>
       LET p == app.input
           enc == app.output.enc
           dec == app.output.dec
       IN  /\ enc.err = "nil" /\ dec.err = "nil"
           /\ dec.data = p
           /\ Len(enc.data) = KeySize * NumChunks(Len(p))
           /\ \A c \in 1 .. NumChunks(Len(p)) :
                 DecryptPKCS1v15(SubSeq(enc.data, (c - 1) * KeySize + 1, c * KeySize)).data
                    = SubSeq(p, (c - 1) * (KeySize - PadLen) + 1,
                             Min(c * (KeySize - PadLen), Len(p)))

\* a payload of more than two chunks, the last one short, came back
ChunkedRoundTripSeen_C25 ==
    /\ app.fn = "RSA"
    /\ Len(app.input) > 2 * (KeySize - PadLen)
    /\ Len(app.input) % (KeySize - PadLen) # 0
    /\ app.output.dec.data = app.input
    /\ 0 \in Range(app.input)

\* ---- C28 ----
\* C28: a reply frame with a non-empty error string becomes a message of the
\* call's id and the minion's name that is not a done message and that Run
\* turns into a pack of type error; and when Run takes a message that
\* carries a call id, the pipe table stays as it is
ErrorFrame_C28 ==
    [][/\ \A s \in Streams :
             PipeReply(s, "errframe") =>
                LET m == mch'[Len(mch')]
                IN  /\ m.id = Head(inbox[s]) /\ m.name = sname[s]
                    /\ ~m.done
                    /\ EffectiveCall(m).type = "error"
       /\ (RunMsg /\ Head(mch).id # 0) => pipes' = pipes]_vars

\* ---- C29 ----
\* how often a name was selected
Selected(c, n) == Cardinality({i \in DOMAIN csel[c].names : csel[c].names[i] = n})

\* C29: a pack from a minion the call was not sent to, or a second pack from
\* a minion it was sent to once, changes neither the task's count nor its
\* report; and HandleCall returns its report only when every selected
\* minion's pack has been taken
OwnResponses_C29 ==
    [][\A c \in Callers :
          /\ CallExecute(c) =>
                LET t == taskStore[cid[c]]
                    pk == Head(t.ch)
                IN  (\/ Selected(c, pk.name) = 0
                     \/ Selected(c, pk.name) = 1 /\ pk.name \in t.got) =>
                       /\ taskStore'[cid[c]].gets = t.gets
                       /\ taskStore'[cid[c]].items = t.items
          /\ CallDelete(c) =>
                \A i \in DOMAIN csel[c].names :
                   csel[c].names[i] \in taskStore[cid[c]].got]_vars

\* ---- C26 ----
\* C26: a dispatcher that is not connected, not closed and whose context has
\* not ended gets connected again (or is closed, or its context ends), given
\* that the master comes back and stays
Resurrection_C26 ==
    (~connected /\ ~closed /\ ~cancelled) ~> (connected \/ closed \/ cancelled)

\* ---- C27 ----
\* C27: once fn has run no attached function is still running, fn runs at
\* most once, and a Shutdown has returned nil only after fn has run
ShutdownOrder_C27 ==
    /\ fnRuns >= 1 => \A g \in Attachers : attachPc[g] # "running"
    /\ fnRuns <= 1
    /\ \A c \in Shutters : shutPc[c] = "nil" => fnRuns = 1

\* ---- C30 ----
\* C30: a receive loop that terminates puts one done message for its name
\* on the scheduler channel; while it goes on it puts none, so that the one
\* at its end is the only one; and Run, taking a done message, removes the
\* name from the pipe table
DoneOnce_C30 ==
    [][/\ \A s \in Streams :
             (spc[s] = "running" /\ spc'[s] = "closed") =>
                mch' = Append(mch, DoneMessage(sname[s]))
       /\ \A s \in Streams, k \in ReplyKinds :
             PipeReply(s, k) => ~mch'[Len(mch')].done
       /\ (RunMsg /\ Head(mch).done) => pipes'[Head(mch).name] = NoPipe]_vars

\* ---- C31 ----
\* whether the expression is a single list of named hosts
NamedHosts(o) ==
    /\ Len(o) = 1
    /\ o[1].kind = "hosts"
    /\ ~(Len(o[1].arg) = 1 /\ o[1].arg[1] = "*")

\* C31: in the report selectPipe returns for a list of named hosts every
\* listed host has an item: a pending slot when the host is eligible and its
\* pipe is in the table, an error item that names the reason otherwise
ListedHosts_C31 ==
    [][\A c \in Callers, o \in CallOptions, ord \in Orders(minions) :
          (CallStart(c, o, ord) /\ cpc'[c] = "insert" /\ NamedHosts(o)) =>
             \A h \in Range(o[1].arg) :
                \E i \in DOMAIN csel'[c].items :
                   LET it == csel'[c].items[i]
                       live == h \in Names /\ pipes[h] # NoPipe
                   IN  /\ it.minion = h
                       /\ IF h \in minions /\ live
                          THEN it.error = ""
                          ELSE it.error \in {"not online", "not accepted"}]_vars

\* ---- C32 ----
\* C32: for an expression that is not a single host-list term selectPipe
\* selects every eligible minion with a pipe for which MatchTarget with
\* simple = true yields matched or not hit
GeneralPath_C32 ==
    [][\A c \in Callers, o \in CallOptions, ord \in Orders(minions) :
          (CallStart(c, o, ord) /\ o # NilOptions
             /\ ~(Len(o) = 1 /\ o[1].kind = "hosts")) =>
             \A n \in minions :
                LET m == MatchTarget(o, Node(n), TRUE)
                IN  (pipes[n] # NoPipe /\ (m[1] \/ ~m[2])) =>
                       /\ cpc'[c] = "insert"
                       /\ n \in Range(csel'[c].names)]_vars

\* ---- C33 ----
\* C33: a target that MatchTarget accepts in full mode is matched or not hit
\* in simple mode, so the coarse filter of selectPipe keeps it
CoarseKeeps_C33 ==
    app.fn = "MatchBoth" =>
       (app.output.full[1] => (app.output.simple[1] \/ ~app.output.simple[2]))

\* ---- C34 ----
\* C34: on a stream whose Connect reply has not been sent yet no Call frame
\* has been sent
ConnectFirst_C34 ==
    \A s \in Streams : spc[s] = "attached" => inbox[s] = <<>>

\* ---- C35 ----
\* C35: when HandleCall sends its request on a pipe the call's task is in
\* the task table, and when Run takes a response that carries the id of a
\* call in progress the task of that id is in the table
TaskBeforeSend_C35 ==
    [][/\ \A c \in Callers : CallSend(c) => taskStore[cid[c]] # NoTask
       /\ (/\ RunMsg
           /\ ~Head(mch).done
           /\ \E c \in Callers : cpc[c] # "idle" /\ cid[c] = Head(mch).id) =>
             taskStore[Head(mch).id] # NoTask]_vars

\* C35 witness: the response to a call in progress is the next message Run
\* takes, and the call's task is in the table
TaskBeforeSendSeen_C35 ==
    \E c \in Callers :
       /\ cpc[c] = "execute"
       /\ runPc = "select"
       /\ mch # <<>>
       /\ ~Head(mch).done
       /\ Head(mch).id = cid[c]
       /\ taskStore[cid[c]] # NoTask

\* ---- C36 ----
\* C36: no publisher holds the store's lock while it waits for room on the
\* subscriber's channel, so that no operation of the trust store that needs
\* the lock has to wait for the subscriber
NoWaitForSubscriber_C36 ==
    ~(cmuHeld # NoEvent /\ Len(ech) >= EchCap)

\* ---- C37 ----
\* C37: a thread that modifies a per-state set holds the store's lock as its
\* writer, and no two threads are in an access to the same set at the same
\* time when one of the two modifies it
ExclusiveWrites_C37 ==
    /\ \A t \in Threads : access[t].kind = "write" => rw.writer = t
    /\ \A t \in Threads : ~Racing(t)

\* ---- C38 ----
\* no operation began and no other thread took a step of its operation since
\* the call of thread t began
Alone(t) ==
    /\ nOps = pre[t].nOps
    /\ \A u \in Threads \ {t} : opr[u] = pre[t].opr[u]

\* C38: when AcceptMinion or RejectMinion returns an error, "minion not
\* found" or a failure of the symlink move, and no other operation ran in the
\* meantime, the per-state sets, the bucket links and the state files are as
\* the call found them and the call has published no event
ErrorLeavesStore_C38 ==
    [][\A t \in Threads :
          /\ (/\ opr[t].op \in {"accept", "reject"}
              /\ opr'[t].op = "idle"
              /\ opr'[t].ret # "ok"
              /\ Alone(t))
             => /\ minionCache' = pre[t].cache
                /\ links' = pre[t].links
                /\ stateFile' = pre[t].sf
                /\ pubs' = pubs
          /\ (/\ opr[t].op = "idle"
              /\ opr'[t].op = "idle"
              /\ opr'[t] # opr[t]
              /\ opr'[t].ret = "not found")
             => UNCHANGED <<minionCache, links, stateFile, pubs>>]_vars

\* ---- C39 ----
\* C39: after an AcceptMinion RPC that returned names, every returned name is
\* in the Accepted set and has the state file accepted; after a RejectMinion
\* RPC, every returned name is in the Rejected set with the state file
\* rejected
ReturnedAreMoved_C39 ==
    (app.fn \in {"accept", "reject"} /\ app.output.err = "ok") =>
       \A i \in DOMAIN app.output.targets :
          LET n == app.output.targets[i]
          IN  /\ n \in minionCache[TargetState(app.fn)]
              /\ stateFile[n] = TargetState(app.fn)

\* ---- C40 ----
\* C40: no task has counted more packs than its total; a call whose execute
\* still consumes has gets below total, a call whose execute returned nil has
\* gets equal to total, a call that returned with success returned with gets
\* equal to total, and a call that returned by its deadline with gets below
\* total
GetsWithinTotal_C40 ==
    /\ \A i \in Ids : taskStore[i] # NoTask => taskStore[i].gets <= taskStore[i].total
    /\ \A c \in Callers :
          /\ cpc[c] = "execute" => taskStore[cid[c]].gets < taskStore[cid[c]].total
          /\ cpc[c] = "delete" => taskStore[cid[c]].gets = taskStore[cid[c]].total
          /\ (cret[c].err = "" /\ cret[c].rsp) => cret[c].gets = cret[c].total
          /\ cret[c].err = "deadline" => cret[c].gets < cret[c].total

\* C40 witness: execute has returned nil with gets equal to total while a
\* further pack for the task waits in its channel
GetsWithinTotalSeen_C40 ==
    \E c \in Callers :
       /\ cpc[c] = "delete"
       /\ taskStore[cid[c]].gets = taskStore[cid[c]].total
       /\ taskStore[cid[c]].ch # <<>>

====
